---- MODULE Spec2Model ----
(***************************************************************************)
(* Model of the task-flow notification service:                            *)
(*   services/notification-service/src/config/redis.js                     *)
(*       (Redis presence / offline stores, RabbitMQ consumer,              *)
(*        handleTaskEvent recipient resolution)                            *)
(*   services/notification-service/src/server.js        (Socket.IO server) *)
(*   services/notification-service/src/handlers/socketHandlers.js          *)
(*   services/notification-service/src/middleware/auth.js                  *)
(***************************************************************************)
EXTENDS Integers, Sequences, FiniteSets, TLC

VARIABLES
    \* handleTaskEvent
    event,          \* the lifecycle event handed to handleTaskEvent (option: <<>> or <<e>>)
    emitted,        \* emissions of the most recent step, in code order
    outcome,        \* "idle" | "returned" | "threw": how the last handleTaskEvent ended;
                    \* "http:200" | "http:400": the response of the last POST /notify
    \* Socket.IO server
    sockets,        \* per connection: state and the user attached by authenticateSocket
    rooms,          \* per connection: the rooms it is a member of
    received,       \* per connection: what the most recent step delivered to it
    \* RabbitMQ channel of the consumer
    channel,        \* per delivery tag what the consumer did; requeued messages
    conn,           \* where initializeServices and the broker connection stand:
                    \* "disconnected" | "connecting" | "connected" | "consuming" |
                    \* "closed" | "exited" (process.exit(1))
    presenceLog,    \* history: the user:online / user:offline broadcasts so far
    \* Redis
    client,         \* redis.js:3  "null" until connectRedis creates the client
    session,        \* key user_session:{u}: option of the stored JSON string
    online_users,   \* the set online_users
    notifications,  \* key notifications:{u}: the list, head first
    listTtl,        \* whether notifications:{u} carries an expiry
    calls,          \* store calls in progress, each at its awaited command
    ret,            \* what the store call that finished last returned (Void once
                    \* the next call has started)
    \* history
    appended,       \* pushes to notifications:{u} since that list was last deleted
    clean,          \* no command of an append to u failed since then
    cleared,        \* the last finished clearOfflineNotifications, until the next append
    lastPut,        \* the arguments of the last finished storeUserSession, while
                    \* its record stands
    lastRemoved,    \* the last finished removeUserSession, until the next store
    \* task service
    taskService     \* rabbitmq.js:4 channel, the tasks collection, the messages
                    \* published to task_events, the last response

handlerVars == <<event, emitted, outcome>>
socketVars  == <<sockets, rooms, received>>
redisVars   == <<client, session, online_users, notifications, listTtl, calls, ret>>
historyVars == <<appended, clean, cleared, lastPut, lastRemoved>>
notificationService ==
    <<handlerVars, socketVars, channel, conn, presenceLog, redisVars, historyVars>>
vars == <<notificationService, taskService>>

----------------------------------------------------------------------------
(* Domains                                                                 *)

\* user ids (strings, as carried by the x-user-id header and the snapshots)
Users == {"U1", "U2", "U3"}

\* an optional field that is undefined / null
None == "none"

\* redis.js:304-401, the cases of the switch
EventTypes == {"created", "updated", "status_changed", "comment_added", "deleted"}

\* an eventType that reaches the default case (redis.js:403)
UnknownType == "archived"

\* longest watchers / mentions list of a snapshot
MaxWatchers == 2
MaxMentions == 2

SeqsUpTo(S, n) == UNION {[1..k -> S] : k \in 0..n}

\* Task snapshot. watchers and mentions are lists of userIds; an undefined
\* list is skipped by the optional chaining (task.watchers?.forEach,
\* task.newComment?.mentions) exactly as an empty one is iterated, so it is
\* represented by <<>>.  newComment is attached to comment_added events only
\* (comments.js:124-127) and read in that case only (redis.js:363-383).
Tasks(maxW, maxM) ==
    [assignedTo : Users \cup {None},
     createdBy  : Users \cup {None},
     watchers   : SeqsUpTo(Users, maxW),
     mentions   : SeqsUpTo(Users, maxM)]

\* TaskLifecycleEvent { eventType, task, userId }; task is an option
\* (<<>> when the payload carries no task object).
EventsOf(types, maxW, maxM) ==
    { [eventType |-> ty, task |-> <<t>>, userId |-> a] :
        ty \in types, t \in Tasks(maxW, maxM), a \in Users }

Events ==
    EventsOf((EventTypes \ {"comment_added"}) \cup {UnknownType}, MaxWatchers, 0)
      \cup EventsOf({"comment_added"}, MaxWatchers, MaxMentions)
      \cup { [eventType |-> ty, task |-> <<>>, userId |-> a] :
               ty \in {"created", UnknownType}, a \in Users }

----------------------------------------------------------------------------
(* Rooms and emissions                                                     *)

\* server.js:71  `user:${socket.user.id}`,  redis.js:310 `user:${...userId}`
UserRoom(u) == "user:" \o u
\* server.js:74  `role:${socket.user.role}`, redis.js:317-318
RoleRoom(r) == "role:" \o r
\* io.emit / socket.broadcast.emit address every connected session
AllRoom == "*"

Roles == {"admin", "project_manager", "team_member"}

\* notification.title / notification.message per case of the switch
TitleOf(ty) ==
    CASE ty = "created"        -> "New Task Created"
      [] ty = "updated"        -> "Task Updated"
      [] ty = "status_changed" -> "Task Status Changed"
      [] ty = "comment_added"  -> "New Comment Added"
      [] ty = "deleted"        -> "Task Deleted"
      [] OTHER                 -> ""

MessageOf(ty) ==
    CASE ty = "created"        -> "Task <title> has been created"
      [] ty = "updated"        -> "Task <title> has been updated"
      [] ty = "status_changed" -> "Task <title> status changed to <status>"
      [] ty = "comment_added"  -> "New comment on task <title>"
      [] ty = "deleted"        -> "Task <title> has been deleted"
      [] OTHER                 -> ""

AssignedMessage == "You have been assigned a new task: <title>"
MentionTitle    == "You were mentioned"
MentionMessage  == "You were mentioned in a comment on task <title>"

\* io.to(room).emit('notification', {...notification, title, message})
Notify(room, title, message) ==
    [to |-> room, skip |-> None, ev |-> "notification",
     title |-> title, message |-> message, userId |-> None]

\* a variant of TaskUpdate addressed to the actor's room only
TaskUpdateToActor(e) ==
    [to |-> UserRoom(e.userId), skip |-> None, ev |-> "task:update",
     title |-> e.eventType, message |-> "", userId |-> e.userId]

\* io.emit('task:update', { eventType, task, userId, timestamp })
TaskUpdate(e) ==
    [to |-> AllRoom, skip |-> None, ev |-> "task:update",
     title |-> e.eventType, message |-> "", userId |-> e.userId]

----------------------------------------------------------------------------
(* handleTaskEvent (redis.js:288-415)                                      *)

MapSeq(s, F(_)) == [i \in 1..Len(s) |-> F(s[i])]

\* an entry of a list that is null instead of an object: reading its userId
\* throws a TypeError, which ends the forEach and the function
Null == "null"
Broken(list) == \E i \in 1..Len(list) : list[i] = Null
\* the entries forEach visits before it throws
Visited(list) ==
    IF Broken(list)
    THEN SubSeq(list, 1, (CHOOSE i \in 1..Len(list) :
                            list[i] = Null /\ \A j \in 1..(i - 1) : list[j] # Null) - 1)
    ELSE list

\* a variant of NotifyWatchers without the comparison against the actor
NotifyWatchersDropGuard(ty, t, actor) ==
    MapSeq(t.watchers, LAMBDA w : Notify(UserRoom(w), TitleOf(ty), MessageOf(ty)))

\* task.watchers?.forEach(w => { if (w.userId !== userId) emit to user:w })
NotifyWatchers(ty, t, actor) ==
    MapSeq(SelectSeq(Visited(t.watchers), LAMBDA w : w # actor),
           LAMBDA w : Notify(UserRoom(w), TitleOf(ty), MessageOf(ty)))

\* a variant of NotifyAssignee that leaves the assignee out
NotifyAssigneeNever(ty, t, actor, message) == << >>

\* if (task.assignedTo?.userId && task.assignedTo.userId !== userId) emit
NotifyAssignee(ty, t, actor, message) ==
    IF t.assignedTo # None /\ t.assignedTo # actor
    THEN << Notify(UserRoom(t.assignedTo), TitleOf(ty), message) >>
    ELSE << >>

\* a variant of NotifyCreator that leaves the creator out
NotifyCreatorNever(ty, t, actor) == << >>

\* if (task.createdBy?.userId && task.createdBy.userId !== userId) emit
NotifyCreator(ty, t, actor) ==
    IF t.createdBy # None /\ t.createdBy # actor
    THEN << Notify(UserRoom(t.createdBy), TitleOf(ty), MessageOf(ty)) >>
    ELSE << >>

\* a variant of NotifyMentions without the comparison against the actor
NotifyMentionsAll(t, actor) ==
    MapSeq(t.mentions, LAMBDA m : Notify(UserRoom(m), MentionTitle, MentionMessage))

\* task.newComment.mentions.forEach(m => { if (m.userId !== userId) emit })
NotifyMentions(t, actor) ==
    MapSeq(SelectSeq(Visited(t.mentions), LAMBDA m : m # actor),
           LAMBDA m : Notify(UserRoom(m), MentionTitle, MentionMessage))

\* a variant of NotifyRoles that addresses role:admin only
NotifyRolesOnlyAdmin(ty) ==
    << Notify(RoleRoom("admin"), TitleOf(ty), MessageOf(ty)) >>

\* the role channels addressed by the 'created' case (redis.js:317-318)
NotifyRoles(ty) ==
    << Notify(RoleRoom("project_manager"), TitleOf(ty), MessageOf(ty)),
       Notify(RoleRoom("admin"), TitleOf(ty), MessageOf(ty)) >>

\* the targeted notifications of one case of the switch, in code order
CaseEmits(ty, t, actor) ==
    CASE ty = "created" ->
            NotifyAssignee(ty, t, actor, AssignedMessage) \o NotifyRoles(ty)
      [] ty = "updated" ->
            NotifyWatchers(ty, t, actor) \o NotifyAssignee(ty, t, actor, MessageOf(ty))
      [] ty = "status_changed" ->
            NotifyWatchers(ty, t, actor) \o NotifyCreator(ty, t, actor)
                \o NotifyAssignee(ty, t, actor, MessageOf(ty))
      [] ty = "comment_added" ->
            NotifyWatchers(ty, t, actor) \o NotifyMentions(t, actor)
      [] ty = "deleted" ->
            NotifyWatchers(ty, t, actor) \o NotifyAssignee(ty, t, actor, MessageOf(ty))

\* the case of the switch throws in one of its loops: every case but 'created'
\* walks the watchers, 'comment_added' then walks the mentions
CaseThrows(ty, t) ==
    \/ ty # "created" /\ Broken(t.watchers)
    \/ ty = "comment_added" /\ Broken(t.mentions)
\* what the case had emitted when it threw
EmitsBeforeThrow(ty, t, actor) ==
    IF Broken(t.watchers)
    THEN NotifyWatchers(ty, t, actor)
    ELSE NotifyWatchers(ty, t, actor) \o NotifyMentions(t, actor)

\* a variant of handleTaskEvent whose default case throws
handleTaskEventDefaultThrows(e) ==
    IF e.task = << >> \/ e.eventType \notin EventTypes
    THEN [threw |-> TRUE, emits |-> << >>]
    ELSE [threw |-> FALSE,
          emits |-> CaseEmits(e.eventType, e.task[1], e.userId) \o << TaskUpdate(e) >>]

\* The whole function: [threw, emits].  task._id (line 291) throws a TypeError
\* when the event carries no task, before anything is emitted; the default
\* case returns before the task:update broadcast (line 405); a case that
\* throws in a loop leaves what it had emitted and skips the broadcast.
handleTaskEvent(e) ==
    IF e.task = << >>
    THEN [threw |-> TRUE, emits |-> << >>]
    ELSE IF e.eventType \notin EventTypes
    THEN [threw |-> FALSE, emits |-> << >>]
    ELSE IF CaseThrows(e.eventType, e.task[1])
    THEN [threw |-> TRUE, emits |-> EmitsBeforeThrow(e.eventType, e.task[1], e.userId)]
    ELSE [threw |-> FALSE,
          emits |-> CaseEmits(e.eventType, e.task[1], e.userId) \o << TaskUpdate(e) >>]

----------------------------------------------------------------------------
(* JSON text                                                               *)

\* JSON.stringify: a value becomes a string that JSON.parse reads back
Stringify(v) == <<"json", v>>
\* bytes that are no JSON text
Garbage == <<"garbage">>
\* JSON.parse: the value (as an option), << >> when it throws a SyntaxError
JSONparse(text) == IF text[1] = "json" THEN << text[2] >> ELSE << >>

----------------------------------------------------------------------------
(* Socket.IO server (server.js:63-101, middleware/auth.js:4-31)            *)

SocketIds == {"s1", "s2"}

\* the user directory behind the tokens: decoded.email and decoded.role
EmailOf(u) == u \o "@example.com"
RoleOf(u) ==
    CASE u = "U1" -> "admin" [] u = "U2" -> "project_manager" [] OTHER -> "team_member"

\* handshake tokens: none, one that jwt.verify rejects, one per user
TokenOf(u) == "jwt:" \o u
Tokens == {"", "forged"} \cup {TokenOf(u) : u \in Users}

\* an authenticateSocket whose jwt.verify lets the forged token through
authenticateSocketAcceptsForged(token) ==
    IF token = "" THEN << >>
    ELSE LET u == IF \E x \in Users : token = TokenOf(x)
                  THEN CHOOSE x \in Users : token = TokenOf(x) ELSE "U3"
         IN  << [id |-> u, email |-> EmailOf(u), role |-> RoleOf(u)] >>

\* authenticateSocket: socket.user as an option, << >> when next(new Error(..))
authenticateSocket(token) ==
    IF token = "" THEN << >>
    ELSE IF \E u \in Users : token = TokenOf(u)
    THEN LET u == CHOOSE x \in Users : token = TokenOf(x)
         IN  << [id |-> u, email |-> EmailOf(u), role |-> RoleOf(u)] >>
    ELSE << >>

\* socket.emit(...) addresses the one connection
SocketRoom(s) == "socket:" \o s

\* a variant that emits to everyone, the connection itself included
PresenceToEveryone(s, ev, user) ==
    [to |-> AllRoom, skip |-> None, ev |-> ev, title |-> "", message |-> "",
     userId |-> user.id]

\* socket.broadcast.emit('user:online' | 'user:offline', {userId, email, ..})
Presence(s, ev, user) ==
    [to |-> AllRoom, skip |-> s, ev |-> ev, title |-> "", message |-> "",
     userId |-> user.id]

\* what the adapter hands to each connection: an emission reaches the connected
\* members of its room, the sender of a broadcast excepted
Deliver(ems, socks, rms) ==
    [s \in SocketIds |->
        SelectSeq(ems, LAMBDA m :
            /\ socks[s].state = "connected"
            /\ m.skip # s
            /\ (m.to = AllRoom \/ m.to = SocketRoom(s) \/ m.to \in rms[s]))]

NothingReceived == [s \in SocketIds |-> << >>]

\* history of the presence broadcasts of a step: which connection each is
\* about, the connections it was handed to, and the other connections that
\* were connected at that moment
Broadcasts(ems, recv, socks) ==
    [i \in 1..Len(ems) |->
        [ev |-> ems[i].ev, about |-> ems[i].skip, userId |-> ems[i].userId,
         to |-> {s \in SocketIds : \E j \in 1..Len(recv[s]) : recv[s][j] = ems[i]},
         others |-> {s \in SocketIds \ {ems[i].skip} : socks[s].state = "connected"}]]

----------------------------------------------------------------------------
(* Redis commands and the store functions (redis.js:1-221)                 *)

\* the users whose keys the store specifications exercise
StoreUsers == {"U1", "U2"}

\* total number of pushes outstanding over the lists of the store
MaxAppends == 52

Min(a, b) == IF a < b THEN a ELSE b

\* LPUSH key v, LTRIM key start stop, LRANGE key start stop (stop < 0 counts
\* from the tail), on the value of the key
LPush(list, v) == <<v>> \o list
LTrim(list, start, stop) == SubSeq(list, start + 1, Min(stop + 1, Len(list)))
LRange(list, start, stop) ==
    SubSeq(list, start + 1,
           IF stop < 0 THEN Len(list) + 1 + stop ELSE Min(stop + 1, Len(list)))

\* redis.js:143  client.lTrim(notificationKey, 0, 49)
TrimStop == 49
\* a variant of Trimmed that keeps one entry more
TrimmedKeepsFiftyOne(list) == LTrim(list, 0, TrimStop + 1)
Trimmed(list) == LTrim(list, 0, TrimStop)

\* a variant of Del that leaves the key in place
DelOtherKey(list) == list
\* redis.js:174  client.del(notificationKey): the key is gone
Del(list) == << >>

\* a variant of SetEx that keeps the value of a key that exists
SetExKeepsOld(old, value) == IF old = << >> THEN << value >> ELSE old
\* redis.js:62  client.setEx(sessionKey, 3600, value): the key holds the value
SetEx(old, value) == << value >>

\* a variant of SRem that leaves the member in place
SRemForgotten(set, u) == set
\* redis.js:81  client.sRem('online_users', userId)
SRem(set, u) == set \ {u}

\* redis.js:134-138  { ...notification, id, stored: true }; the id of the n-th
\* entry pushed to a list since it was last deleted is n
NotificationData(u, n) == [id |-> n, user |-> u, stored |-> TRUE]

\* redis.js:56-60  { socketId, ...userData, lastSeen }
SessionData(s, m) ==
    [socketId |-> s, email |-> m.email, role |-> m.role,
     connectedAt |-> m.connectedAt, lastSeen |-> "now"]

\* socketHandlers.js:12-16  the userData of a connection
Metas(u) ==
    {[email |-> EmailOf(u), role |-> RoleOf(u), connectedAt |-> t] : t \in {"t1", "t2"}}

\* the pushes that stand in the lists of the store
Pushes == appended["U1"] + appended["U2"] + appended["U3"]

Call(op, u, pc, arg) == [op |-> op, user |-> u, pc |-> pc, arg |-> arg]
Void == [op |-> "void", user |-> None, value |-> << >>, ok |-> TRUE]
NoClear == [user |-> None, ok |-> FALSE]
NoPut == [user |-> None, data |-> << >>, prev |-> << >>]
\* a new storeUserSession(u, ..) starts: the last finished one, if it was for
\* u, is no longer the last word on u; its socket id is remembered
Superseded(u) ==
    IF lastPut.user = u THEN [NoPut EXCEPT !.prev = << lastPut.data[1] >>] ELSE lastPut

\* connectRedis (redis.js:5-48), the first await of initializeServices
\* (server.js:32): createClient assigns the client, unless it throws (the catch
\* leaves client null); a failing connect is caught and leaves a client whose
\* commands fail.  connectRabbitMQ is called next.
ConnectRedis ==
    /\ conn = "disconnected"
    /\ client = "null"
    /\ \E created \in BOOLEAN : client' = IF created THEN "open" ELSE "null"
    /\ conn' = "connecting"
    /\ UNCHANGED <<taskService, handlerVars, socketVars, channel, presenceLog, session, online_users,
                   notifications, listTtl, calls, ret, historyVars>>

\* a finished call leaves the set of calls in progress
Finish(c, r) == calls' = calls \ {c} /\ ret' = r
Goto(c, pc)  == calls' = (calls \ {c}) \cup {[c EXCEPT !.pc = pc]} /\ UNCHANGED ret

\* ---- storeOfflineNotification (redis.js:129-151)
StoreOfflineNotification(u) ==
    /\ calls = {}
    /\ Pushes < MaxAppends
    /\ IF client = "null"
       THEN ret' = Void /\ UNCHANGED <<calls, cleared>>
       ELSE /\ calls' = {Call("storeOfflineNotification", u, "lPush",
                               << NotificationData(u, appended[u] + 1) >>)}
            /\ cleared' = IF cleared.user = u THEN NoClear ELSE cleared
            /\ ret' = Void
    /\ UNCHANGED <<taskService, handlerVars, socketVars, channel, conn, presenceLog, client, session, online_users,
                   notifications, listTtl, appended, clean, lastPut, lastRemoved>>

StoreOffline_lPush(c) ==
    /\ c.op = "storeOfflineNotification" /\ c.pc = "lPush"
    /\ \E ok \in BOOLEAN :
         IF ok
         THEN /\ notifications' =
                   [notifications EXCEPT ![c.user] = LPush(@, Stringify(c.arg[1]))]
              /\ appended' = [appended EXCEPT ![c.user] = @ + 1]
              /\ Goto(c, "lTrim")
              /\ UNCHANGED clean
         ELSE /\ Finish(c, Void)
              /\ clean' = [clean EXCEPT ![c.user] = FALSE]
              /\ UNCHANGED <<notifications, appended>>
    /\ UNCHANGED <<taskService, handlerVars, socketVars, channel, conn, presenceLog, client, session, online_users,
                   listTtl, cleared, lastPut, lastRemoved>>

StoreOffline_lTrim(c) ==
    /\ c.op = "storeOfflineNotification" /\ c.pc = "lTrim"
    /\ \E ok \in BOOLEAN :
         IF ok
         THEN /\ notifications' = [notifications EXCEPT ![c.user] = Trimmed(@)]
              /\ Goto(c, "expire")
              /\ UNCHANGED clean
         ELSE /\ Finish(c, Void)
              /\ clean' = [clean EXCEPT ![c.user] = FALSE]
              /\ UNCHANGED notifications
    /\ UNCHANGED <<taskService, handlerVars, socketVars, channel, conn, presenceLog, client, session, online_users,
                   listTtl, appended, cleared, lastPut, lastRemoved>>

StoreOffline_expire(c) ==
    /\ c.op = "storeOfflineNotification" /\ c.pc = "expire"
    /\ \E ok \in BOOLEAN :
         IF ok
         THEN /\ listTtl' = [listTtl EXCEPT ![c.user] = notifications[c.user] # << >>]
              /\ UNCHANGED clean
         ELSE /\ clean' = [clean EXCEPT ![c.user] = FALSE]
              /\ UNCHANGED listTtl
    /\ Finish(c, Void)
    /\ UNCHANGED <<taskService, handlerVars, socketVars, channel, conn, presenceLog, client, session, online_users,
                   notifications, appended, cleared, lastPut, lastRemoved>>

\* ---- getOfflineNotifications (redis.js:154-166)
GetOfflineNotifications(u) ==
    /\ calls = {}
    /\ IF client = "null"
       THEN ret' = [op |-> "getOfflineNotifications", user |-> u,
                    value |-> << >>, ok |-> FALSE]
            /\ UNCHANGED calls
       ELSE calls' = {Call("getOfflineNotifications", u, "lRange", << >>)}
            /\ ret' = Void
    /\ UNCHANGED <<taskService, handlerVars, socketVars, channel, conn, presenceLog, client, session, online_users,
                   notifications, listTtl, historyVars>>

GetOffline_lRange(c) ==
    /\ c.op = "getOfflineNotifications" /\ c.pc = "lRange"
    /\ \E ok \in BOOLEAN :
         Finish(c, [op |-> "getOfflineNotifications", user |-> c.user, ok |-> ok,
                    value |-> IF ok
                              THEN MapSeq(LRange(notifications[c.user], 0, -1),
                                          LAMBDA n : JSONparse(n)[1])
                              ELSE << >>])
    /\ UNCHANGED <<taskService, handlerVars, socketVars, channel, conn, presenceLog, client, session, online_users,
                   notifications, listTtl, historyVars>>

\* ---- clearOfflineNotifications (redis.js:169-178)
ClearOfflineNotifications(u) ==
    /\ calls = {}
    /\ IF client = "null"
       THEN ret' = Void /\ cleared' = [user |-> u, ok |-> FALSE] /\ UNCHANGED calls
       ELSE calls' = {Call("clearOfflineNotifications", u, "del", << >>)}
            /\ ret' = Void
            /\ UNCHANGED cleared
    /\ UNCHANGED <<taskService, handlerVars, socketVars, channel, conn, presenceLog, client, session, online_users,
                   notifications, listTtl, appended, clean, lastPut, lastRemoved>>

ClearOffline_del(c) ==
    /\ c.op = "clearOfflineNotifications" /\ c.pc = "del"
    /\ \E ok \in BOOLEAN :
         /\ cleared' = [user |-> c.user, ok |-> ok]
         /\ IF ok
            THEN /\ notifications' = [notifications EXCEPT ![c.user] = Del(@)]
                 /\ listTtl' = [listTtl EXCEPT ![c.user] = FALSE]
                 /\ appended' = [appended EXCEPT ![c.user] = 0]
                 /\ clean' = [clean EXCEPT ![c.user] = TRUE]
            ELSE UNCHANGED <<notifications, listTtl, appended, clean>>
    /\ Finish(c, Void)
    /\ UNCHANGED <<taskService, handlerVars, socketVars, channel, conn, presenceLog, client, session, online_users,
                   lastPut, lastRemoved>>

\* ---- the same functions called while other calls are in progress: an async
\* function runs up to its first await when it is called (redis.js:129-140,
\* 154-159), whatever the commands of earlier calls that are still pending
MaxCalls == 3

\* the id of an entry (redis.js:136) differs from those stored and in flight
StoredIds(u) == {JSONparse(notifications[u][i])[1].id : i \in 1..Len(notifications[u])}
PendingIds(u) ==
    {c.arg[1].id : c \in {d \in calls : d.op = "storeOfflineNotification" /\ d.user = u}}
FreshId(u) ==
    LET ids == StoredIds(u) \cup PendingIds(u) \cup {0}
    IN  1 + CHOOSE n \in ids : \A m \in ids : m <= n

StoreOfflineNotificationStart(u) ==
    /\ Cardinality(calls) < MaxCalls
    /\ FreshId(u) <= MaxAppends
    /\ IF client = "null"
       THEN UNCHANGED <<calls, cleared>>
       ELSE /\ calls' = calls \cup {Call("storeOfflineNotification", u, "lPush",
                                         << NotificationData(u, FreshId(u)) >>)}
            /\ cleared' = IF cleared.user = u THEN NoClear ELSE cleared
    /\ ret' = Void
    /\ UNCHANGED <<taskService, handlerVars, socketVars, channel, conn, presenceLog, client, session, online_users,
                   notifications, listTtl, appended, clean, lastPut, lastRemoved>>

GetOfflineNotificationsStart(u) ==
    /\ Cardinality(calls) < MaxCalls
    /\ IF client = "null"
       THEN ret' = [op |-> "getOfflineNotifications", user |-> u,
                    value |-> << >>, ok |-> FALSE]
            /\ UNCHANGED calls
       ELSE calls' = calls \cup {Call("getOfflineNotifications", u, "lRange", << >>)}
            /\ ret' = Void
    /\ UNCHANGED <<taskService, handlerVars, socketVars, channel, conn, presenceLog, client, session, online_users,
                   notifications, listTtl, historyVars>>

\* a storeUserSession that sends its commands without looking at the client
StoreUserSessionCallUnguarded(u, s, m) ==
    /\ calls' = calls \cup {Call("storeUserSession", u, "setEx",
                                 << SessionData(s, m), s, m >>)}
    /\ lastPut' = Superseded(u)
    /\ lastRemoved' = IF lastRemoved = u THEN None ELSE lastRemoved

\* ---- storeUserSession (redis.js:51-70), up to its first await
StoreUserSessionCall(u, s, m) ==
    IF client = "null"
    THEN UNCHANGED <<calls, lastPut, lastRemoved>>
    ELSE /\ calls' = calls \cup {Call("storeUserSession", u, "setEx",
                                      << SessionData(s, m), s, m >>)}
         /\ lastPut' = Superseded(u)
         /\ lastRemoved' = IF lastRemoved = u THEN None ELSE lastRemoved

StoreUserSession(u, s, m) ==
    /\ calls = {}
    /\ StoreUserSessionCall(u, s, m)
    /\ ret' = Void
    /\ UNCHANGED <<taskService, handlerVars, socketVars, channel, conn, presenceLog, client, session, online_users,
                   notifications, listTtl, appended, clean, cleared>>

StoreSession_setEx(c) ==
    /\ c.op = "storeUserSession" /\ c.pc = "setEx"
    /\ \E ok \in BOOLEAN :
         IF ok
         THEN /\ session' = [session EXCEPT ![c.user] = SetEx(@, Stringify(c.arg[1]))]
              /\ Goto(c, "sAdd")
         ELSE Finish(c, Void) /\ UNCHANGED session
    /\ UNCHANGED <<taskService, handlerVars, socketVars, channel, conn, presenceLog, client, online_users,
                   notifications, listTtl, historyVars>>

StoreSession_sAdd(c) ==
    /\ c.op = "storeUserSession" /\ c.pc = "sAdd"
    /\ \E ok \in BOOLEAN :
         IF ok
         THEN /\ online_users' = online_users \cup {c.user}
              /\ lastPut' = IF session[c.user] # << >>
                            THEN [user |-> c.user, data |-> Tail(c.arg),
                                  prev |-> IF lastPut.user = None
                                           THEN lastPut.prev ELSE << >>]
                            ELSE NoPut   \* the key ran out during the call
         ELSE UNCHANGED <<online_users, lastPut>>
    /\ Finish(c, Void)
    /\ UNCHANGED <<taskService, handlerVars, socketVars, channel, conn, presenceLog, client, session,
                   notifications, listTtl, appended, clean, cleared, lastRemoved>>

\* ---- removeUserSession (redis.js:73-86), up to its first await
RemoveUserSessionCall(u) ==
    IF client = "null"
    THEN UNCHANGED <<calls, lastPut, lastRemoved>>
    ELSE /\ calls' = calls \cup {Call("removeUserSession", u, "del", << >>)}
         /\ lastPut' = IF lastPut.user = u THEN NoPut ELSE lastPut
         /\ UNCHANGED lastRemoved

RemoveUserSession(u) ==
    /\ calls = {}
    /\ RemoveUserSessionCall(u)
    /\ ret' = Void
    /\ UNCHANGED <<taskService, handlerVars, socketVars, channel, conn, presenceLog, client, session, online_users,
                   notifications, listTtl, appended, clean, cleared>>

RemoveSession_del(c) ==
    /\ c.op = "removeUserSession" /\ c.pc = "del"
    /\ \E ok \in BOOLEAN :
         IF ok
         THEN session' = [session EXCEPT ![c.user] = << >>] /\ Goto(c, "sRem")
         ELSE Finish(c, Void) /\ UNCHANGED session
    /\ UNCHANGED <<taskService, handlerVars, socketVars, channel, conn, presenceLog, client, online_users,
                   notifications, listTtl, historyVars>>

RemoveSession_sRem(c) ==
    /\ c.op = "removeUserSession" /\ c.pc = "sRem"
    /\ \E ok \in BOOLEAN :
         IF ok
         THEN /\ online_users' = SRem(online_users, c.user)
              /\ lastRemoved' = c.user
         ELSE UNCHANGED <<online_users, lastRemoved>>
    /\ Finish(c, Void)
    /\ UNCHANGED <<taskService, handlerVars, socketVars, channel, conn, presenceLog, client, session,
                   notifications, listTtl, appended, clean, cleared, lastPut>>

\* ---- getUserSession (redis.js:89-101)
GetUserSession(u) ==
    /\ calls = {}
    /\ IF client = "null"
       THEN ret' = [op |-> "getUserSession", user |-> u, value |-> << >>, ok |-> FALSE]
            /\ UNCHANGED calls
       ELSE calls' = {Call("getUserSession", u, "get", << >>)} /\ ret' = Void
    /\ UNCHANGED <<taskService, handlerVars, socketVars, channel, conn, presenceLog, client, session, online_users,
                   notifications, listTtl, historyVars>>

GetSession_get(c) ==
    /\ c.op = "getUserSession" /\ c.pc = "get"
    /\ \E ok \in BOOLEAN :
         Finish(c, [op |-> "getUserSession", user |-> c.user, ok |-> ok,
                    value |-> IF ok /\ session[c.user] # << >>
                              THEN JSONparse(session[c.user][1])
                              ELSE << >>])
    /\ UNCHANGED <<taskService, handlerVars, socketVars, channel, conn, presenceLog, client, session, online_users,
                   notifications, listTtl, historyVars>>

\* a variant of the expiry that also takes the user out of the online set
SessionExpiresCleansSet(u) ==
    /\ session[u] # << >>
    /\ session' = [session EXCEPT ![u] = << >>]
    /\ online_users' = online_users \ {u}
    /\ lastPut' = IF lastPut.user = u THEN NoPut ELSE lastPut
    /\ UNCHANGED <<taskService, handlerVars, socketVars, channel, conn, presenceLog, client,
                   notifications, listTtl, calls, ret, appended, clean, cleared,
                   lastRemoved>>

\* the 3600 s of setEx (redis.js:62) run out: Redis drops the key, and nothing
\* else
SessionExpires(u) ==
    /\ session[u] # << >>
    /\ session' = [session EXCEPT ![u] = << >>]
    /\ lastPut' = IF lastPut.user = u THEN NoPut ELSE lastPut
    /\ UNCHANGED <<taskService, handlerVars, socketVars, channel, conn, presenceLog, client, online_users,
                   notifications, listTtl, calls, ret, appended, clean, cleared,
                   lastRemoved>>

\* ---- getOnlineUsers (redis.js:104-126): sMembers, then getUserSession for
\* each id in turn; an id without a session record is skipped
OnlineEntry(u, v) ==
    [userId |-> u, socketId |-> v.socketId, email |-> v.email, role |-> v.role,
     connectedAt |-> v.connectedAt, lastSeen |-> v.lastSeen]

\* the orders in which sMembers can list the members of a set
Listings(set) ==
    {q \in SeqsUpTo(set, Cardinality(set)) :
        Len(q) = Cardinality(set) /\ \A u \in set : \E i \in 1..Len(q) : q[i] = u}

GetOnlineUsers ==
    /\ calls = {}
    /\ IF client = "null"
       THEN ret' = [op |-> "getOnlineUsers", user |-> None, value |-> << >>, ok |-> FALSE]
            /\ UNCHANGED calls
       ELSE calls' = {Call("getOnlineUsers", None, "sMembers", << >>)} /\ ret' = Void
    /\ UNCHANGED <<taskService, handlerVars, socketVars, channel, conn, presenceLog, client, session, online_users,
                   notifications, listTtl, historyVars>>

GetOnline_sMembers(c) ==
    /\ c.op = "getOnlineUsers" /\ c.pc = "sMembers"
    /\ \E ok \in BOOLEAN :
         IF ok /\ online_users # {}
         THEN \E userIds \in Listings(online_users) :
                /\ calls' = (calls \ {c}) \cup
                               {[c EXCEPT !.pc = "getUserSession", !.arg = <<userIds, << >> >>]}
                /\ UNCHANGED ret
         ELSE Finish(c, [op |-> "getOnlineUsers", user |-> None, value |-> << >>, ok |-> ok])
    /\ UNCHANGED <<taskService, handlerVars, socketVars, channel, conn, presenceLog, client, session, online_users,
                   notifications, listTtl, historyVars>>

\* one turn of the loop: getUserSession(userId) catches the failure of its own
\* get and answers null
GetOnline_getUserSession(c) ==
    /\ c.op = "getOnlineUsers" /\ c.pc = "getUserSession"
    /\ \E ok \in BOOLEAN :
         LET userId   == Head(c.arg[1])
             found    == IF ok /\ session[userId] # << >>
                         THEN JSONparse(session[userId][1]) ELSE << >>
             sessions == IF found # << >>
                         THEN Append(c.arg[2], OnlineEntry(userId, found[1]))
                         ELSE c.arg[2]
         IN  IF Tail(c.arg[1]) = << >>
             THEN Finish(c, [op |-> "getOnlineUsers", user |-> None,
                             value |-> sessions, ok |-> TRUE])
             ELSE /\ calls' = (calls \ {c}) \cup
                                 {[c EXCEPT !.arg = <<Tail(c.arg[1]), sessions>>]}
                  /\ UNCHANGED ret
    /\ UNCHANGED <<taskService, handlerVars, socketVars, channel, conn, presenceLog, client, session, online_users,
                   notifications, listTtl, historyVars>>

----------------------------------------------------------------------------
(* Connections (server.js:64-95, socketHandlers.js:8-16, 188-195)          *)

Socket(state, user) == [state |-> state, user |-> user]

\* process.exit(1) in the catch of initializeServices (server.js:37-38) ends
\* the process and every handler with it
Alive == conn # "exited"

\* io.use(authenticateSocket), then io.on('connection'): join user:{id} and
\* role:{role}, broadcast user:online, registerHandlers (which starts
\* storeUserSession without awaiting it)
Connection(s, token) ==
    /\ Alive
    /\ sockets[s].state = "new"
    /\ LET auth == authenticateSocket(token) IN
         IF auth = << >>
         THEN /\ sockets' = [sockets EXCEPT ![s] = Socket("rejected", << >>)]
              /\ emitted' = << >>
              /\ received' = NothingReceived
              /\ UNCHANGED <<rooms, calls, lastPut, lastRemoved>>
         ELSE LET user == auth[1] IN
              /\ sockets' = [sockets EXCEPT ![s] = Socket("connected", auth)]
              /\ rooms' = [rooms EXCEPT ![s] = {UserRoom(user.id), RoleRoom(user.role)}]
              /\ emitted' = << Presence(s, "user:online", user) >>
              /\ received' = Deliver(emitted', sockets', rooms')
              /\ \E m \in Metas(user.id) : StoreUserSessionCall(user.id, s, m)
    /\ presenceLog' = presenceLog \o Broadcasts(emitted', received', sockets')
    /\ event' = << >> /\ outcome' = "idle"
    /\ UNCHANGED <<taskService, channel, conn, client, session, online_users, notifications,
                   listTtl, ret, appended, clean, cleared>>

\* 'disconnect': the connection has left its rooms; registerHandlers' handler
\* starts removeUserSession, server.js broadcasts user:offline
Disconnect(s) ==
    /\ Alive
    /\ sockets[s].state = "connected"
    /\ LET user == sockets[s].user[1] IN
         /\ sockets' = [sockets EXCEPT ![s] = Socket("closed", << >>)]
         /\ rooms' = [rooms EXCEPT ![s] = {}]
         /\ RemoveUserSessionCall(user.id)
         /\ emitted' = << Presence(s, "user:offline", user) >>
         /\ received' = Deliver(emitted', sockets', rooms')
    /\ presenceLog' = presenceLog \o Broadcasts(emitted', received', sockets')
    /\ event' = << >> /\ outcome' = "idle"
    /\ UNCHANGED <<taskService, channel, conn, client, session, online_users, notifications,
                   listTtl, ret, appended, clean, cleared>>

----------------------------------------------------------------------------
(* Client events (socketHandlers.js:40-146) and POST /notify (server.js)   *)

\* a JavaScript value as the handlers test it: its typeof and its content
Str(x) == <<"string", x>>
NotAString == <<"number", "42">>
typeof(v) == v[1]

\* what a dispatch leaves in the offline queues: handleTaskEvent, POST /notify
\* and message:direct emit to rooms and call no store function
OfflineFallbackStores(ems, socks, rms, queues) ==
    [u \in Users |->
        IF /\ \E i \in 1..Len(ems) : ems[i].to = UserRoom(u)
           /\ \A s \in SocketIds : ~(socks[s].state = "connected" /\ UserRoom(u) \in rms[s])
        THEN << Stringify(NotificationData(u, Len(queues[u]) + 1)) >> \o queues[u]
        ELSE queues[u]]
OfflineFallback(ems, socks, rms, queues) == queues

\* 'message:direct' (socketHandlers.js:120-146); data is an object
Recipients == {Str(u) : u \in Users} \cup {Str("U9"), NotAString}
Texts == {Str("hello"), NotAString}
\* a variant that sends the message to the sender's own user room
DirectReceivedToSender(s, user, recipientId, message) ==
    [to |-> UserRoom(user.id), skip |-> None, ev |-> "message:received",
     title |-> user.email, message |-> message, userId |-> user.id]
DirectReceived(s, user, recipientId, message) ==
    [to |-> UserRoom(recipientId), skip |-> None, ev |-> "message:received",
     title |-> user.email, message |-> message, userId |-> user.id]
DirectSent(s, recipientId, message) ==
    [to |-> SocketRoom(s), skip |-> None, ev |-> "message:sent",
     title |-> "", message |-> message, userId |-> recipientId]

MessageDirect(s, recipientId, message) ==
    /\ Alive
    /\ sockets[s].state = "connected"
    /\ emitted' = IF typeof(recipientId) = "string" /\ typeof(message) = "string"
                  THEN << DirectReceived(s, sockets[s].user[1], recipientId[2], message[2]),
                          DirectSent(s, recipientId[2], message[2]) >>
                  ELSE << >>
    /\ received' = Deliver(emitted', sockets, rooms)
    /\ notifications' = OfflineFallback(emitted', sockets, rooms, notifications)
    /\ event' = << >> /\ outcome' = "idle"
    /\ UNCHANGED <<taskService, sockets, rooms, channel, conn, presenceLog, client, session,
                   online_users, listTtl, calls, ret, historyVars>>

\* 'ping' (socketHandlers.js:168-173): pong to the sender
Ping(s) ==
    /\ Alive
    /\ sockets[s].state = "connected"
    /\ emitted' = << [to |-> SocketRoom(s), skip |-> None, ev |-> "pong", title |-> "",
                      message |-> "", userId |-> sockets[s].user[1].id] >>
    /\ received' = Deliver(emitted', sockets, rooms)
    /\ event' = << >> /\ outcome' = "idle"
    /\ UNCHANGED <<taskService, sockets, rooms, channel, conn, presenceLog, redisVars, historyVars>>

\* 'user:presence' (socketHandlers.js:93-101): a known status is broadcast
Statuses == {"online", "away", "busy"}
UserPresence(s, status) ==
    /\ Alive
    /\ sockets[s].state = "connected"
    /\ emitted' = IF status \in Statuses
                  THEN << [to |-> AllRoom, skip |-> s, ev |-> "user:presence_update",
                           title |-> sockets[s].user[1].email, message |-> status,
                           userId |-> sockets[s].user[1].id] >>
                  ELSE << >>
    /\ received' = Deliver(emitted', sockets, rooms)
    /\ event' = << >> /\ outcome' = "idle"
    /\ UNCHANGED <<taskService, sockets, rooms, channel, conn, presenceLog, redisVars, historyVars>>

\* ---- rooms (socketHandlers.js:40-77)

\* a MongoDB ObjectId, LongName for a name of one hundred characters, and the
\* names clients send
TaskId == "64b7f0c2a1d3e4f5a6b7c8d9"
LongName == "a-name-of-100-characters"
RoomNames == {Str(UserRoom("U1")), Str(RoleRoom("admin")), Str(LongName), NotAString}
TaskIds == {Str(TaskId), Str("42"), NotAString}
\* String.prototype.length of the strings above
length(v) ==
    CASE v[2] = TaskId -> 24
      [] v[2] = LongName -> 100
      [] v[2] = UserRoom("U1") -> 7
      [] v[2] = RoleRoom("admin") -> 10
      [] v[2] = "42" -> 2
TaskRoom(taskId) == "task:" \o taskId

\* socket.emit('room:joined' | 'room:left', { room }) and
\* socket.emit('task:joined' | 'task:left', { taskId })
RoomAck(s, ev, name) ==
    [to |-> SocketRoom(s), skip |-> None, ev |-> ev, title |-> "",
     message |-> name, userId |-> None]

\* a room handler: the membership of connection s becomes members when the
\* argument passes the handler's test, and the connection is told
RoomEvent(s, ok, members, ev, name) ==
    /\ Alive
    /\ sockets[s].state = "connected"
    /\ rooms' = [rooms EXCEPT ![s] = IF ok THEN members ELSE @]
    /\ emitted' = IF ok THEN << RoomAck(s, ev, name) >> ELSE << >>
    /\ received' = Deliver(emitted', sockets, rooms')
    /\ event' = << >> /\ outcome' = "idle"
    /\ UNCHANGED <<taskService, sockets, channel, conn, presenceLog, redisVars, historyVars>>

\* 'join:room' (socketHandlers.js:41-47)
JoinRoom(s, roomName) ==
    RoomEvent(s, typeof(roomName) = "string" /\ length(roomName) < 100,
              rooms[s] \cup {roomName[2]}, "room:joined", roomName[2])

\* 'leave:room' (socketHandlers.js:50-56)
LeaveRoom(s, roomName) ==
    RoomEvent(s, typeof(roomName) = "string",
              rooms[s] \ {roomName[2]}, "room:left", roomName[2])

\* 'join:task' (socketHandlers.js:59-67)
JoinTask(s, taskId) ==
    RoomEvent(s, typeof(taskId) = "string" /\ length(taskId) = 24,
              rooms[s] \cup {TaskRoom(taskId[2])}, "task:joined", taskId[2])

\* 'leave:task' (socketHandlers.js:70-77)
LeaveTask(s, taskId) ==
    RoomEvent(s, typeof(taskId) = "string" /\ length(taskId) = 24,
              rooms[s] \ {TaskRoom(taskId[2])}, "task:left", taskId[2])

\* 'task:typing' (socketHandlers.js:80-90): told to the others in the task room
TaskTyping(s, taskId) ==
    /\ Alive
    /\ sockets[s].state = "connected"
    /\ emitted' = IF typeof(taskId) = "string" /\ length(taskId) = 24
                  THEN << [to |-> TaskRoom(taskId[2]), skip |-> s, ev |-> "task:user_typing",
                           title |-> sockets[s].user[1].email, message |-> taskId[2],
                           userId |-> sockets[s].user[1].id] >>
                  ELSE << >>
    /\ received' = Deliver(emitted', sockets, rooms)
    /\ event' = << >> /\ outcome' = "idle"
    /\ UNCHANGED <<taskService, sockets, rooms, channel, conn, presenceLog, redisVars, historyVars>>

\* 'clear:offline_notifications' (socketHandlers.js:31-38): the handler awaits
\* clearOfflineNotifications(user.id), which returns at once without a client
\* (redis.js:170), and then tells the connection
Cleared(s) ==
    [to |-> SocketRoom(s), skip |-> None, ev |-> "notifications:cleared", title |-> "",
     message |-> "", userId |-> None]

ClearOfflineNotificationsEvent(s) ==
    /\ Alive
    /\ sockets[s].state = "connected"
    /\ \A c \in calls : ~(c.op = "clear:offline_notifications" /\ c.arg = <<s>>)
    /\ LET u == sockets[s].user[1].id IN
         IF client = "null"
         THEN /\ emitted' = << Cleared(s) >>
              /\ cleared' = [user |-> u, ok |-> FALSE]
              /\ UNCHANGED calls
         ELSE /\ emitted' = << >>
              /\ calls' = calls \cup {Call("clear:offline_notifications", u, "del", <<s>>)}
              /\ UNCHANGED cleared
    /\ received' = Deliver(emitted', sockets, rooms)
    /\ event' = << >> /\ outcome' = "idle"
    /\ UNCHANGED <<taskService, sockets, rooms, channel, conn, presenceLog, client, session,
                   online_users, notifications, listTtl, ret, appended, clean, lastPut,
                   lastRemoved>>

\* the del of that call is answered or fails (redis.js:172-177); the catch of
\* clearOfflineNotifications logs, the handler goes on to socket.emit
ClearOfflineNotificationsEvent_del(c) ==
    /\ c.op = "clear:offline_notifications" /\ c.pc = "del"
    /\ \E ok \in BOOLEAN :
         /\ cleared' = [user |-> c.user, ok |-> ok]
         /\ IF ok
            THEN /\ notifications' = [notifications EXCEPT ![c.user] = Del(@)]
                 /\ listTtl' = [listTtl EXCEPT ![c.user] = FALSE]
                 /\ appended' = [appended EXCEPT ![c.user] = 0]
                 /\ clean' = [clean EXCEPT ![c.user] = TRUE]
            ELSE UNCHANGED <<notifications, listTtl, appended, clean>>
    /\ calls' = calls \ {c}
    /\ emitted' = << Cleared(c.arg[1]) >>
    /\ received' = Deliver(emitted', sockets, rooms)
    /\ event' = << >> /\ outcome' = "idle"
    /\ UNCHANGED <<taskService, sockets, rooms, channel, conn, presenceLog, client, session,
                   online_users, ret, lastPut, lastRemoved>>

\* req.body of POST /notify/*: complete, or with a required field missing
Bodies == {[type |-> "info", title |-> "Hi", message |-> "there"],
           [type |-> "info", title |-> "", message |-> "there"]}
Complete(body) == body.type # "" /\ body.title # "" /\ body.message # ""

\* the three routes end alike: emit, respond
Post(ok, room, body) ==
    /\ Alive
    /\ emitted' = IF ok THEN << Notify(room, body.title, body.message) >> ELSE << >>
    /\ received' = Deliver(emitted', sockets, rooms)
    /\ notifications' = OfflineFallback(emitted', sockets, rooms, notifications)
    /\ event' = << >>
    /\ outcome' = IF ok THEN "http:200" ELSE "http:400"
    /\ UNCHANGED <<taskService, sockets, rooms, channel, conn, presenceLog, client, session,
                   online_users, listTtl, calls, ret, historyVars>>

\* POST /notify/user/:userId (server.js:104-130)
NotifyUser(userId, body) ==
    Post(Complete(body), UserRoom(userId), body)

\* POST /notify/role/:role (server.js:132-164)
NotifyRole(role, body) ==
    Post(role \in Roles /\ Complete(body), RoleRoom(role), body)

\* POST /notify/broadcast (server.js:166-191)
NotifyBroadcast(body) ==
    Post(Complete(body), AllRoom, body)

----------------------------------------------------------------------------
(* The consumer of task_notifications (redis.js:256-286)                   *)

\* deliveries the broker makes to the consumer
MaxMsgs == 2

\* the snapshots the broker carries: the two scenarios of the specification,
\* and the first with a comment that mentions a watcher
SampleTasks ==
    { [assignedTo |-> "U2", createdBy |-> "U3", watchers |-> <<"U1", "U2">>,
       mentions |-> << >>],
      [assignedTo |-> "U2", createdBy |-> "U1", watchers |-> << >>,
       mentions |-> << >>],
      [assignedTo |-> "U2", createdBy |-> "U3", watchers |-> <<"U1", "U2">>,
       mentions |-> <<"U1">>] }

BrokerEvents == {e \in Events : e.task = << >> \/ e.task[1] \in SampleTasks}

\* events whose lists carry a null entry after a watcher: any publisher can
\* put them on the exchange, the consumer checks nothing but the JSON syntax
MalformedEvents ==
    { [eventType |-> "updated", userId |-> "U3",
       task |-> << [assignedTo |-> "U2", createdBy |-> "U3",
                    watchers |-> <<"U1", Null>>, mentions |-> << >>] >>],
      [eventType |-> "comment_added", userId |-> "U3",
       task |-> << [assignedTo |-> "U2", createdBy |-> "U3",
                    watchers |-> <<"U1">>, mentions |-> <<Null>>] >>] }

\* msg.content of a delivery
Contents == {Stringify(e) : e \in BrokerEvents \cup MalformedEvents} \cup {Garbage}

\* what the channel knows of delivery tag t: how often the callback ran on it,
\* whether that run threw, the acks and nacks sent for it
Fresh == [runs |-> 0, threw |-> FALSE, acks |-> 0, nacks |-> 0]

\* the broker's side of basic.ack / basic.nack(requeue): a requeued message
\* goes back to the queue with its content
ChannelAck(ch, tag) ==
    [ch EXCEPT !.log[tag].acks = @ + 1]
ChannelNack(ch, tag, content, requeue) ==
    [ch EXCEPT !.log[tag].nacks = @ + 1,
               !.requeued = IF requeue THEN @ \cup {<<tag, content>>} ELSE @]

\* a variant of Settle whose nack asks for a requeue
SettleRequeues(ch, tag, content, threw) ==
    IF threw THEN ChannelNack(ch, tag, content, TRUE) ELSE ChannelAck(ch, tag)
\* redis.js:272-275  channel.ack(msg) / channel.nack(msg, false, false)
Settle(ch, tag, content, threw) ==
    IF threw THEN ChannelNack(ch, tag, content, FALSE) ELSE ChannelAck(ch, tag)

\* the messages the broker can deliver next: a new one, or a requeued one that
\* has not yet been run twice
Deliverable ==
    {<<Len(channel.log) + 1, c>> : c \in IF Len(channel.log) < MaxMsgs THEN Contents ELSE {}}
      \cup {d \in channel.requeued : channel.log[d[1]].runs < 2}

\* the consume callback on one delivery (msg is not null): JSON.parse,
\* handleTaskEvent, then ack, or nack without requeue from the catch block.
\* handleTaskEvent awaits nothing, so the ack follows in the same turn.
ConsumeCallback(tag, content) ==
    /\ conn = "consuming"
    /\ <<tag, content>> \in Deliverable
    /\ LET parsed == JSONparse(content)
           r == IF parsed = << >> THEN [threw |-> TRUE, emits |-> << >>]
                ELSE handleTaskEvent(parsed[1])
           log1 == IF tag > Len(channel.log) THEN Append(channel.log, Fresh)
                   ELSE channel.log
           delivered == [log |-> [log1 EXCEPT ![tag].runs = @ + 1,
                                              ![tag].threw = r.threw],
                         requeued |-> channel.requeued \ {<<tag, content>>},
                         last |-> tag]
       IN
         /\ event' = parsed
         /\ emitted' = r.emits
         /\ received' = Deliver(r.emits, sockets, rooms)
         /\ outcome' = IF r.threw THEN "threw" ELSE "returned"
         /\ channel' = Settle(delivered, tag, content, r.threw)
         /\ notifications' = OfflineFallback(r.emits, sockets, rooms, notifications)
    /\ UNCHANGED <<taskService, sockets, rooms, conn, presenceLog, client, session, online_users,
                   listTtl, calls, ret, historyVars>>

\* ---- initializeServices after connectRedis (server.js:30-40)

\* connectRabbitMQ (redis.js:228-254): amqp.connect, createChannel and the two
\* assertExchange; a failure is rethrown and initializeServices exits
ConnectRabbitMQ ==
    /\ conn = "connecting"
    /\ \E ok \in BOOLEAN : conn' = IF ok THEN "connected" ELSE "exited"
    /\ UNCHANGED <<taskService, handlerVars, socketVars, channel, presenceLog, redisVars, historyVars>>

\* startConsumers (redis.js:256-286): assertQueue, bindQueue, consume; a
\* failure is rethrown and initializeServices exits
StartConsumers ==
    /\ conn = "connected"
    /\ \E ok \in BOOLEAN : conn' = IF ok THEN "consuming" ELSE "exited"
    /\ UNCHANGED <<taskService, handlerVars, socketVars, channel, presenceLog, redisVars, historyVars>>

\* the broker connection fails or is closed: the 'error' and 'close' listeners
\* (redis.js:242-248) log, and nothing else; the channel and its consumer are
\* gone with the connection
ConnectionClose ==
    /\ conn = "consuming"
    /\ conn' = "closed"
    /\ UNCHANGED <<taskService, handlerVars, socketVars, channel, presenceLog, redisVars, historyVars>>

----------------------------------------------------------------------------
(* Task service (task-service/src: server.js, routes/tasks.js,             *)
(* routes/comments.js, models/Task.js, config/rabbitmq.js)                 *)

\* requests the task service answers in a run
MaxRequests == 3

\* the ids requests name: the task of the collection and one that never exists
TaskDocIds == {"T1", "T9"}
TaskStatuses == {"todo", "done"}

\* req.user, from the headers the gateway sets (server.js:37-44)
ReqUser(u) == [id |-> u, role |-> RoleOf(u), email |-> EmailOf(u)]

\* Task.js:187-196
canEdit(task, user) ==
    \/ user.role = "admin"
    \/ user.role = "project_manager"
    \/ task.createdBy = user.id
    \/ task.assignedTo = user.id

\* Task.js:198-209
canView(task, user) ==
    \/ user.role = "admin"
    \/ user.role = "project_manager"
    \/ task.createdBy = user.id
    \/ task.assignedTo = user.id
    \/ user.id \in task.watchers

\* publishTaskEvent (rabbitmq.js:49-76): what stands published after the call.
\* Without a channel it logs and returns; a publish on a closed channel throws
\* and the catch logs.
publishTaskEvent(ts, eventType, taskId, userId) ==
    IF ts.channel = "open"
    THEN Append(ts.published, [eventType |-> eventType, task |-> taskId, userId |-> userId])
    ELSE ts.published

\* res.status(..).json(..) ends the request
Respond(ts, route, status) ==
    [ts EXCEPT !.res = [route |-> route, status |-> status], !.served = @ + 1]

Serving == taskService.up /\ taskService.served < MaxRequests

\* connectRabbitMQ (rabbitmq.js:6-47), awaited by initializeServices while the
\* server already listens (server.js:16-27, 80); a failure ends the process
TaskConnectRabbitMQ ==
    /\ taskService.up
    /\ taskService.channel = "null"
    /\ \E ok \in BOOLEAN :
         taskService' = IF ok THEN [taskService EXCEPT !.channel = "open"]
                        ELSE [taskService EXCEPT !.up = FALSE]
    /\ UNCHANGED notificationService

\* the broker connection closes: the listener logs (rabbitmq.js:32-34) and the
\* module keeps the channel
TaskConnectionClose ==
    /\ taskService.up
    /\ taskService.channel = "open"
    /\ taskService' = [taskService EXCEPT !.channel = "closed"]
    /\ UNCHANGED notificationService

\* POST /tasks (tasks.js:151-188)
CreateTask(u, valid, assignedTo, saved) ==
    /\ Serving
    /\ taskService.tasks["T1"] = << >>   \* the collection holds one task at most
    /\ taskService' =
         IF ~valid THEN Respond(taskService, "create", 400)
         ELSE IF ~saved
         THEN Respond(taskService, "create", 500)
         ELSE LET task == [status |-> "todo", createdBy |-> u,
                           assignedTo |-> assignedTo, watchers |-> {}]
                  ts   == [taskService EXCEPT !.tasks["T1"] = << task >>]
              IN  Respond([ts EXCEPT !.published = publishTaskEvent(ts, "created", "T1", u)],
                          "create", 201)
    /\ UNCHANGED notificationService

\* PUT /tasks/:id (tasks.js:191-243); status is the status of the body, if any
UpdateTask(u, id, valid, status, saved) ==
    /\ Serving
    /\ taskService' =
         IF ~valid THEN Respond(taskService, "update", 400)
         ELSE IF taskService.tasks[id] = << >> THEN Respond(taskService, "update", 404)
         ELSE LET task == taskService.tasks[id][1] IN
           IF ~canEdit(task, ReqUser(u)) THEN Respond(taskService, "update", 403)
           ELSE IF ~saved THEN Respond(taskService, "update", 500)
           ELSE LET originalStatus == task.status
                    updated == IF status = << >> THEN task
                               ELSE [task EXCEPT !.status = status[1]]
                    ts == [taskService EXCEPT !.tasks[id] = << updated >>]
                    ty == IF originalStatus # updated.status
                          THEN "status_changed" ELSE "updated"
                IN  Respond([ts EXCEPT !.published = publishTaskEvent(ts, ty, id, u)],
                            "update", 200)
    /\ UNCHANGED notificationService

\* DELETE /tasks/:id (tasks.js:246-281)
DeleteTask(u, id, saved) ==
    /\ Serving
    /\ taskService' =
         IF taskService.tasks[id] = << >> THEN Respond(taskService, "delete", 404)
         ELSE LET task == taskService.tasks[id][1] IN
           IF RoleOf(u) # "admin" /\ task.createdBy # u
           THEN Respond(taskService, "delete", 403)
           ELSE IF ~saved THEN Respond(taskService, "delete", 500)
           ELSE LET ts == [taskService EXCEPT !.tasks[id] = << >>]
                IN  Respond([ts EXCEPT !.published = publishTaskEvent(ts, "deleted", id, u)],
                            "delete", 200)
    /\ UNCHANGED notificationService

\* POST /comments (comments.js:57-140); parent is "none" for a comment that is
\* no reply, "found" or "missing" for the parent of a reply
CreateComment(u, id, valid, parent, saved) ==
    /\ Serving
    /\ taskService' =
         IF ~valid THEN Respond(taskService, "comment", 400)
         ELSE IF taskService.tasks[id] = << >> THEN Respond(taskService, "comment", 404)
         ELSE LET task == taskService.tasks[id][1] IN
           IF ~canView(task, ReqUser(u)) THEN Respond(taskService, "comment", 403)
           ELSE IF parent = "missing" THEN Respond(taskService, "comment", 400)
           ELSE IF ~saved THEN Respond(taskService, "comment", 500)
           ELSE LET watched == [task EXCEPT !.watchers = @ \cup {u}]
                    ts == [taskService EXCEPT !.tasks[id] = << watched >>]
                IN  Respond([ts EXCEPT !.published =
                                publishTaskEvent(ts, "comment_added", id, u)],
                            "comment", 201)
    /\ UNCHANGED notificationService

----------------------------------------------------------------------------
(* Specifications                                                          *)

\* the task service after require(): no channel (rabbitmq.js:3-4), and the
\* collection without the task
TaskServiceStart ==
    [up |-> TRUE, channel |-> "null", tasks |-> [id \in TaskDocIds |-> << >>],
     published |-> << >>, res |-> [route |-> "none", status |-> 0], served |-> 0]

\* the module scope after require(): nothing connected, nothing stored
Boot ==
    /\ emitted = << >>
    /\ outcome = "idle"
    /\ sockets = [s \in SocketIds |-> Socket("new", << >>)]
    /\ rooms = [s \in SocketIds |-> {}]
    /\ received = NothingReceived
    /\ channel = [log |-> << >>, requeued |-> {}, last |-> 0]
    /\ conn = "disconnected"
    /\ presenceLog = << >>
    /\ client = "null"
    /\ session = [u \in Users |-> << >>]
    /\ online_users = {}
    /\ notifications = [u \in Users |-> << >>]
    /\ listTtl = [u \in Users |-> FALSE]
    /\ calls = {}
    /\ ret = Void
    /\ appended = [u \in Users |-> 0]
    /\ clean = [u \in Users |-> TRUE]
    /\ cleared = NoClear
    /\ lastPut = NoPut
    /\ lastRemoved = None
    /\ taskService = TaskServiceStart

\* SpecResolver: the exported handleTaskEvent called on every event of Events
InitResolver ==
    /\ event \in { <<e>> : e \in Events }
    /\ Boot

HandleTaskEvent ==
    /\ outcome = "idle"
    /\ event # << >>
    /\ LET r == handleTaskEvent(event[1]) IN
         /\ emitted' = r.emits
         /\ received' = Deliver(r.emits, sockets, rooms)
         /\ outcome' = IF r.threw THEN "threw" ELSE "returned"
    /\ UNCHANGED <<taskService, event, sockets, rooms, channel, conn, presenceLog, redisVars,
                   historyVars>>

NextResolver == HandleTaskEvent

SpecResolver == InitResolver /\ [][NextResolver]_vars

\* Spec: start-up, connections, dispatch and the consumer, in the runs where
\* createClient throws and the Redis client stays null (redis.js:9, 44-47);
\* the runs with a client are those of SpecService
Init == event = << >> /\ Boot

Next ==
    \/ ConnectRedis /\ client' = "null"
    \/ ConnectRabbitMQ
    \/ StartConsumers
    \/ ConnectionClose
    \/ \E s \in SocketIds, token \in Tokens : Connection(s, token)
    \/ \E s \in SocketIds : Disconnect(s)
    \/ \E s \in SocketIds, r \in Recipients, t \in Texts : MessageDirect(s, r, t)
    \/ \E u \in Users \cup {"U9"}, b \in Bodies : NotifyUser(u, b)
    \/ \E r \in Roles \cup {"guest"}, b \in Bodies : NotifyRole(r, b)
    \/ \E b \in Bodies : NotifyBroadcast(b)
    \/ \E d \in Deliverable : ConsumeCallback(d[1], d[2])

Spec == Init /\ [][Next]_vars

\* SpecService: start-up and connections with the commands of the presence
\* calls they start, interleaved as the event loop allows
NextService ==
    \/ ConnectRedis
    \/ \E s \in SocketIds, token \in Tokens : Connection(s, token)
    \/ \E s \in SocketIds : Disconnect(s)
    \/ \E c \in calls : StoreSession_setEx(c)
    \/ \E c \in calls : StoreSession_sAdd(c)
    \/ \E c \in calls : RemoveSession_del(c)
    \/ \E c \in calls : RemoveSession_sRem(c)
    \/ \E s \in SocketIds, r \in Recipients, t \in Texts : MessageDirect(s, r, t)

SpecService == Init /\ [][NextService]_vars

\* SpecRooms: connections that join and leave rooms, and a notification sent to
\* a user room by POST /notify/user
RoomTokens == {"", TokenOf("U1"), TokenOf("U2")}
NextRooms ==
    \/ \E s \in SocketIds, token \in RoomTokens : Connection(s, token)
    \/ \E s \in SocketIds : Disconnect(s)
    \/ \E s \in SocketIds, r \in RoomNames : JoinRoom(s, r)
    \/ \E s \in SocketIds, r \in RoomNames : LeaveRoom(s, r)
    \/ \E s \in SocketIds, t \in TaskIds : JoinTask(s, t)
    \/ \E s \in SocketIds, t \in TaskIds : LeaveTask(s, t)
    \/ \E u \in {"U1", "U2"}, b \in Bodies : NotifyUser(u, b)

SpecRooms == Init /\ [][NextRooms]_vars

\* SpecConsumer: the life of the broker connection, from start-up on, while the
\* HTTP side keeps serving.  Node runs every callback that is ready, so a step
\* that stays possible is eventually taken.
NextConsumer ==
    \/ ConnectRedis /\ client' = "null"
    \/ ConnectRabbitMQ
    \/ StartConsumers
    \/ ConnectionClose
    \/ \E d \in Deliverable : ConsumeCallback(d[1], d[2])
    \/ \E b \in Bodies : NotifyBroadcast(b)

SpecConsumer == Init /\ [][NextConsumer]_vars /\ WF_vars(NextConsumer)

\* SpecDegraded: the store functions, connections and the consumer in the runs
\* where the store is unreachable: createClient threw, or every command that
\* is sent fails.  Each command step is taken with its failing outcome.
\* a command of the client rejects (the server is unreachable): the catch block
\* of the function logs and the call is over
Failed(c) == calls' = calls \ {c}
\* the lifecycle event the broker delivers in these runs
DegradedContents ==
    {Stringify(e) : e \in {x \in BrokerEvents :
                      /\ x.userId = "U1" /\ x.eventType = "created"
                      /\ x.task # << >> /\ x.task[1].createdBy = "U3"}}
DegradedTokens == {"", TokenOf("U1"), TokenOf("U2")}

NextDegraded ==
    \/ ConnectRedis
    \/ ConnectRabbitMQ
    \/ StartConsumers
    \/ \E s \in SocketIds, token \in DegradedTokens : Connection(s, token)
    \/ \E s \in SocketIds : Disconnect(s)
    \/ \E d \in Deliverable : d[2] \in DegradedContents /\ ConsumeCallback(d[1], d[2])
    \/ \E c \in calls : StoreSession_setEx(c) /\ Failed(c)
    \/ \E c \in calls : RemoveSession_del(c) /\ Failed(c)
    \/ GetUserSession("U1")
    \/ \E c \in calls : GetSession_get(c) /\ ~ret'.ok
    \/ StoreOfflineNotification("U1")
    \/ \E c \in calls : StoreOffline_lPush(c) /\ Failed(c)
    \/ GetOfflineNotifications("U1")
    \/ \E c \in calls : GetOffline_lRange(c) /\ ~ret'.ok
    \/ ClearOfflineNotifications("U1")
    \/ \E c \in calls : ClearOffline_del(c) /\ ~cleared'.ok

SpecDegraded == Init /\ [][NextDegraded]_vars

\* SpecOffline: the offline notification store, one call after the other
NextOffline ==
    \/ ConnectRedis
    \/ \E u \in StoreUsers : StoreOfflineNotification(u)
    \/ \E c \in calls : StoreOffline_lPush(c)
    \/ \E c \in calls : StoreOffline_lTrim(c)
    \/ \E c \in calls : StoreOffline_expire(c)
    \/ \E u \in StoreUsers : GetOfflineNotifications(u)
    \/ \E c \in calls : GetOffline_lRange(c)
    \/ \E u \in StoreUsers : ClearOfflineNotifications(u)
    \/ \E c \in calls : ClearOffline_del(c)

SpecOffline == Init /\ [][NextOffline]_vars

\* SpecOfflineConcurrent: appends and reads of the queue of one user, started
\* while earlier calls are still waiting for the store.  The store outlives the
\* service: the queue holds what earlier runs left in it, at most TrimStop + 1
\* entries (the state the calls of SpecOffline leave behind).
Stored(u, n) == [i \in 1..n |-> Stringify(NotificationData(u, n + 1 - i))]
QueuedAtStart == {TrimStop - 1, TrimStop, TrimStop + 1}

InitOfflineConcurrent ==
    /\ event = << >>
    /\ emitted = << >>
    /\ outcome = "idle"
    /\ sockets = [s \in SocketIds |-> Socket("new", << >>)]
    /\ rooms = [s \in SocketIds |-> {}]
    /\ received = NothingReceived
    /\ channel = [log |-> << >>, requeued |-> {}, last |-> 0]
    /\ conn = "disconnected"
    /\ presenceLog = << >>
    /\ client = "null"
    /\ session = [u \in Users |-> << >>]
    /\ online_users = {}
    /\ \E n \in QueuedAtStart :
         /\ notifications = [u \in Users |-> IF u = "U1" THEN Stored(u, n) ELSE << >>]
         /\ appended = [u \in Users |-> IF u = "U1" THEN n ELSE 0]
    /\ listTtl = [u \in Users |-> u = "U1"]
    /\ calls = {}
    /\ ret = Void
    /\ clean = [u \in Users |-> TRUE]
    /\ cleared = NoClear
    /\ lastPut = NoPut
    /\ lastRemoved = None
    /\ taskService = TaskServiceStart

NextOfflineConcurrent ==
    \/ ConnectRedis
    \/ StoreOfflineNotificationStart("U1")
    \/ \E c \in calls : StoreOffline_lPush(c)
    \/ \E c \in calls : StoreOffline_lTrim(c)
    \/ \E c \in calls : StoreOffline_expire(c)
    \/ GetOfflineNotificationsStart("U1")
    \/ \E c \in calls : GetOffline_lRange(c)

SpecOfflineConcurrent == InitOfflineConcurrent /\ [][NextOfflineConcurrent]_vars

\* SpecPresence: the presence store, one call after the other
NextPresence ==
    \/ ConnectRedis
    \/ \E u \in StoreUsers, s \in SocketIds : \E m \in Metas(u) : StoreUserSession(u, s, m)
    \/ \E c \in calls : StoreSession_setEx(c)
    \/ \E c \in calls : StoreSession_sAdd(c)
    \/ \E u \in StoreUsers : RemoveUserSession(u)
    \/ \E c \in calls : RemoveSession_del(c)
    \/ \E c \in calls : RemoveSession_sRem(c)
    \/ \E u \in StoreUsers : GetUserSession(u)
    \/ \E c \in calls : GetSession_get(c)
    \/ \E u \in StoreUsers : SessionExpires(u)

SpecPresence == Init /\ [][NextPresence]_vars

\* SpecExpiry: connections of one user, the client events they send, the
\* presence calls, and the expiry of the session record
ExpiryTokens == {TokenOf("U1")}
NextExpiry ==
    \/ ConnectRedis
    \/ \E s \in SocketIds, token \in ExpiryTokens : Connection(s, token)
    \/ \E s \in SocketIds : Disconnect(s)
    \/ \E c \in calls : StoreSession_setEx(c)
    \/ \E c \in calls : StoreSession_sAdd(c)
    \/ \E c \in calls : RemoveSession_del(c)
    \/ \E c \in calls : RemoveSession_sRem(c)
    \/ \E u \in StoreUsers : SessionExpires(u)
    \/ \E s \in SocketIds : Ping(s)
    \/ \E s \in SocketIds, status \in {"away", "asleep"} : UserPresence(s, status)
    \/ \E s \in SocketIds : JoinTask(s, Str(TaskId))
    \/ \E s \in SocketIds : TaskTyping(s, Str(TaskId))
    \/ \E s \in SocketIds : MessageDirect(s, Str("U1"), Str("hello"))
    \/ GetUserSession("U1")
    \/ \E c \in calls : GetSession_get(c)
    \/ GetOnlineUsers
    \/ \E c \in calls : GetOnline_sMembers(c)
    \/ \E c \in calls : GetOnline_getUserSession(c)

SpecExpiry == Init /\ [][NextExpiry]_vars

\* SpecTasks: the task service from its start, answering requests while
\* initializeServices runs and after
TaskUsers == {"U1", "U3"}
NextTasks ==
    \/ TaskConnectRabbitMQ
    \/ TaskConnectionClose
    \/ \E u \in TaskUsers, valid \in BOOLEAN, a \in {None, "U3"}, saved \in BOOLEAN :
         CreateTask(u, valid, a, saved)
    \/ \E u \in TaskUsers, id \in TaskDocIds, valid \in BOOLEAN, saved \in BOOLEAN :
         \E status \in {<< >>} \cup {<<x>> : x \in TaskStatuses} :
           UpdateTask(u, id, valid, status, saved)
    \/ \E u \in TaskUsers, id \in TaskDocIds, saved \in BOOLEAN : DeleteTask(u, id, saved)
    \/ \E u \in TaskUsers, id \in TaskDocIds, valid \in BOOLEAN, saved \in BOOLEAN :
         \E parent \in {"none", "found", "missing"} :
           CreateComment(u, id, valid, parent, saved)

SpecTasks == Init /\ [][NextTasks]_vars

\* SpecSingleSession: each user with one session at most, and the commands of
\* the presence calls its connection and its disconnection start.
\* The calls share one client (redis.js:3), which sends the commands over one
\* connection in the order they are called.  A function calls its next command
\* when the previous one is answered, so with one session of the user the del
\* of its removeUserSession was called after the setEx of its storeUserSession,
\* and the sRem after the sAdd.
InAnyOrder(c) == TRUE
InOrder(c) ==
    \A d \in calls :
      d.user = c.user /\ d.op = "storeUserSession" /\ c.op = "removeUserSession" =>
        /\ c.pc = "del" => d.pc # "setEx"
        /\ c.pc # "sRem"

SessionOf(s) == IF s = "s1" THEN TokenOf("U1") ELSE TokenOf("U2")
NextSingleSession ==
    \/ ConnectRedis
    \/ \E s \in SocketIds : Connection(s, SessionOf(s))
    \/ \E s \in SocketIds : Disconnect(s)
    \/ \E c \in calls : StoreSession_setEx(c)
    \/ \E c \in calls : StoreSession_sAdd(c)
    \/ \E c \in calls : InOrder(c) /\ RemoveSession_del(c)
    \/ \E c \in calls : InOrder(c) /\ RemoveSession_sRem(c)

SpecSingleSession == Init /\ [][NextSingleSession]_vars

\* SpecSharedUser: sessions that may belong to the same user, in the runs where
\* the store answers every command and each presence call has finished before
\* the next connection or disconnection
SharedTokens == {TokenOf("U1"), TokenOf("U2")}
Answered_setEx(c) == StoreSession_setEx(c) /\ ~Failed(c)
Answered_sAdd(c)  == StoreSession_sAdd(c) /\ c.user \in online_users'
Answered_del(c)   == RemoveSession_del(c) /\ ~Failed(c)
Answered_sRem(c)  == RemoveSession_sRem(c) /\ c.user \notin online_users'

NextSharedUser ==
    \/ ConnectRedis
    \/ \E s \in SocketIds, token \in SharedTokens :
         client = "open" /\ calls = {} /\ Connection(s, token)
    \/ \E s \in SocketIds : client = "open" /\ calls = {} /\ Disconnect(s)
    \/ \E c \in calls : Answered_setEx(c)
    \/ \E c \in calls : Answered_sAdd(c)
    \/ \E c \in calls : Answered_del(c)
    \/ \E c \in calls : Answered_sRem(c)

SpecSharedUser == Init /\ [][NextSharedUser]_vars

\* SpecClear: sessions of U1 that ask for their queue to be cleared, with the
\* presence calls of their connections; the queue holds what earlier runs of
\* the service left in the store
NextClear ==
    \/ ConnectRedis
    \/ \E s \in SocketIds : Connection(s, TokenOf("U1"))
    \/ \E s \in SocketIds : Disconnect(s)
    \/ \E c \in calls : StoreSession_setEx(c)
    \/ \E c \in calls : StoreSession_sAdd(c)
    \/ \E c \in calls : RemoveSession_del(c)
    \/ \E c \in calls : RemoveSession_sRem(c)
    \/ \E s \in SocketIds : ClearOfflineNotificationsEvent(s)
    \/ \E c \in calls : ClearOfflineNotificationsEvent_del(c)

SpecClear == InitOfflineConcurrent /\ [][NextClear]_vars

----------------------------------------------------------------------------
(* Properties of the recipient resolution (SpecResolver)                   *)

Range(s) == {s[i] : i \in 1..Len(s)}

\* the 'notification' emissions of the call, and those addressed to one room
Notifications == SelectSeq(emitted, LAMBDA m : m.ev = "notification")
NotificationsTo(room) == SelectSeq(Notifications, LAMBDA m : m.to = room)
UserRooms == {UserRoom(u) : u \in Users}
RoleRooms == {RoleRoom(r) : r \in Roles}
\* the user channels that are addressed with a 'notification'
AddressedUserRooms == {m.to : m \in Range(Notifications)} \cap UserRooms
AddressedRoleRooms == {m.to : m \in Range(Notifications)} \cap RoleRooms
Handled(ty) == outcome = "returned" /\ event # << >> /\ event[1].eventType = ty

\* C1: for every event type and every task snapshot, handleTaskEvent emits no
\* 'notification' addressed to user:{actor}, whatever roles the actor has on
\* the task (watcher, assignee, creator, mentioned).
C1_ActorNeverAddressed ==
    (outcome # "idle" /\ event # << >>)
        => NotificationsTo(UserRoom(event[1].userId)) = << >>

\* a status_changed event whose actor is watcher, assignee and creator at once
\* and that still notifies somebody else
C1_Witness ==
    /\ Handled("status_changed")
    /\ LET t == event[1].task[1] a == event[1].userId IN
         /\ a \in Range(t.watchers) /\ t.assignedTo = a /\ t.createdBy = a
    /\ Notifications # << >>

\* C3: for every created event: an assignee other than the actor gets exactly
\* one notification, carrying the assignment message; role:project_manager and
\* role:admin get exactly one generic created notification each; no other user
\* or role channel is addressed.
C3_CreatedRecipients ==
    Handled("created") =>
      LET t == event[1].task[1]
          a == event[1].userId
          assigned == t.assignedTo # None /\ t.assignedTo # a
          generic == Notify(RoleRoom("admin"), "New Task Created",
                            "Task <title> has been created")
      IN
        /\ assigned =>
             NotificationsTo(UserRoom(t.assignedTo)) =
               << [generic EXCEPT !.to = UserRoom(t.assignedTo),
                                  !.message = AssignedMessage] >>
        /\ NotificationsTo(RoleRoom("project_manager")) =
               << [generic EXCEPT !.to = RoleRoom("project_manager")] >>
        /\ NotificationsTo(RoleRoom("admin")) = << generic >>
        /\ AddressedRoleRooms = {RoleRoom("project_manager"), RoleRoom("admin")}
        /\ AddressedUserRooms = IF assigned THEN {UserRoom(t.assignedTo)} ELSE {}

\* a created event with an assignee other than the actor
C3_Witness ==
    /\ Handled("created")
    /\ event[1].task[1].assignedTo \in Users \ {event[1].userId}
    /\ Len(Notifications) = 3

\* C4: for every status_changed event the user channels addressed are exactly
\* (watchers \cup {creator} \cup {assignee}) minus {actor}.
C4_StatusChangedRecipients ==
    Handled("status_changed") =>
      LET t == event[1].task[1]
          involved == (Range(t.watchers) \cup {t.createdBy, t.assignedTo}) \cap Users
      IN  AddressedUserRooms = {UserRoom(u) : u \in involved \ {event[1].userId}}

\* the scenario of the specification: watchers A and B, creator C, assignee B,
\* actor B: A and C are addressed, B is not
C4_Witness ==
    /\ Handled("status_changed")
    /\ LET t == event[1].task[1] IN
         /\ t.watchers = <<"U1", "U2">> /\ t.createdBy = "U3" /\ t.assignedTo = "U2"
    /\ event[1].userId = "U2"
    /\ AddressedUserRooms = {UserRoom("U1"), UserRoom("U3")}

\* C5: for every comment_added event, each mentioned user X other than the
\* actor is addressed with the 'You were mentioned' notification, in addition
\* to the generic 'New Comment Added' one when X is also a watcher; a mentioned
\* actor gets no mention notification.
C5_MentionNotifications ==
    Handled("comment_added") =>
      LET t == event[1].task[1]
          a == event[1].userId
          mention(x) == Notify(UserRoom(x), "You were mentioned",
                               "You were mentioned in a comment on task <title>")
          generic(x) == Notify(UserRoom(x), "New Comment Added",
                               "New comment on task <title>")
      IN
        /\ \A x \in Range(t.mentions) \ {a} :
             /\ mention(x) \in Range(Notifications)
             /\ x \in Range(t.watchers) => generic(x) \in Range(Notifications)
        /\ mention(a) \notin Range(Notifications)

\* a comment that mentions a watcher other than the actor, and the actor too
C5_Witness ==
    /\ Handled("comment_added")
    /\ LET t == event[1].task[1] a == event[1].userId IN
         /\ a \in Range(t.mentions)
         /\ \E x \in Range(t.mentions) \ {a} : x \in Range(t.watchers)
    /\ Len(Notifications) >= 2

----------------------------------------------------------------------------
(* Properties of delivery and of the consumer (Spec)                       *)

\* the 'notification' emissions delivered to connection s by the last step
NotificationsReceived(s) == SelectSeq(received[s], LAMBDA m : m.ev = "notification")

\* C2: for every created event, no connected session of the acting user
\* receives a 'notification' produced by that event, whatever the actor's role.
C2_ActorReceivesNothing ==
    Handled("created") =>
      \A s \in SocketIds :
        (sockets[s].state = "connected" /\ sockets[s].user[1].id = event[1].userId)
          => NotificationsReceived(s) = << >>

\* C9: every message delivered to the consumer is settled exactly once, by an
\* ack when parsing and handleTaskEvent raised nothing and by a nack otherwise;
\* none is requeued and none is run a second time.
C9_SettledExactlyOnce ==
    /\ channel.requeued = {}
    /\ \A t \in 1..Len(channel.log) :
         LET m == channel.log[t] IN
           /\ m.runs = 1
           /\ m.acks + m.nacks = 1
           /\ m.acks = 1 <=> ~m.threw

\* a delivery that was nacked and a later one that was acked
C9_Witness ==
    /\ Len(channel.log) >= 2
    /\ channel.log[1].nacks = 1 /\ channel.log[1].threw
    /\ channel.log[2].acks = 1

\* the delivery whose callback ran in the last step
LastDelivery == channel.log[channel.last]
UnknownTypeConsumed == event # << >> /\ event[1].eventType \notin EventTypes
TreatedAsSuccess ==
    /\ Notifications = << >>
    /\ outcome = "returned"
    /\ LastDelivery.acks = 1 /\ LastDelivery.nacks = 0

\* C10 (as stated): an event whose eventType is outside the five known types
\* produces no 'notification' and its message is acknowledged, not negatively
\* acknowledged.
C10_UnknownTypeAcked == UnknownTypeConsumed => TreatedAsSuccess

\* C10 (amended): an event that carries a task object and whose eventType is
\* outside the five known types produces no 'notification' and its message is
\* acknowledged, not negatively acknowledged.
C10_UnknownTypeWithTaskAcked ==
    (UnknownTypeConsumed /\ event[1].task # << >>) => TreatedAsSuccess

C10_Witness ==
    /\ UnknownTypeConsumed /\ event[1].task # << >>
    /\ LastDelivery.acks = 1
    /\ \E s \in SocketIds : sockets[s].state = "connected"

----------------------------------------------------------------------------
(* Properties of the offline notification store (SpecOffline)              *)

NoCallOn(u) == \A c \in calls : c.user # u

\* the n appends that stand in u's list, newest first, cut at 50
NewestFirst(u, n) == [i \in 1..Min(n, 50) |-> NotificationData(u, n - i + 1)]

\* C6: after each of a sequence of storeOfflineNotification calls on one
\* user's queue, each run to its end before the next, the queue holds at most
\* 50 entries, and they are the min(n, 50) most recently appended ones, newest
\* first.
C6_QueueHoldsNewestFifty ==
    \A u \in StoreUsers :
      (NoCallOn(u) /\ clean[u]) =>
        /\ Len(notifications[u]) <= 50
        /\ notifications[u] = MapSeq(NewestFirst(u, appended[u]), Stringify)
        /\ (ret.op = "getOfflineNotifications" /\ ret.ok /\ ret.user = u)
             => ret.value = NewestFirst(u, appended[u])

\* 51 appends: 50 entries remain and the first one is gone
C6_Witness ==
    /\ calls = {} /\ clean["U1"] /\ appended["U1"] = 51
    /\ Len(notifications["U1"]) = 50
    /\ Stringify(NotificationData("U1", 1)) \notin Range(notifications["U1"])
    /\ Stringify(NotificationData("U1", 2)) \in Range(notifications["U1"])

GotAfterClear == ret.op = "getOfflineNotifications" /\ cleared.user = ret.user

ClearFrame ==
    \A c \in calls :
      ClearOffline_del(c) =>
        /\ \A v \in Users \ {c.user} :
             notifications'[v] = notifications[v] /\ listTtl'[v] = listTtl[v]
        /\ cleared = [user |-> c.user, ok |-> TRUE]
             => UNCHANGED <<notifications, listTtl, session, online_users>>

----------------------------------------------------------------------------
(* Properties of the presence store (SpecPresence)                         *)

GotSession(u) == ret.op = "getUserSession" /\ ret.ok /\ ret.user = u

\* C8: with the store reachable and no TTL expiry, storeUserSession(u, s, m)
\* followed by getUserSession(u) returns a record with socketId s and the
\* fields of m; after a following removeUserSession(u), getUserSession(u)
\* returns null and u is not in the online set.
C8_PresenceRoundTrip ==
    /\ \A u \in Users :
         (GotSession(u) /\ lastPut.user = u) =>
           /\ ret.value # << >>
           /\ LET rec == ret.value[1] s == lastPut.data[1] m == lastPut.data[2] IN
                /\ rec.socketId = s
                /\ rec.email = m.email /\ rec.role = m.role
                /\ rec.connectedAt = m.connectedAt
    /\ lastRemoved # None =>
         /\ lastRemoved \notin online_users
         /\ session[lastRemoved] = << >>
         /\ GotSession(lastRemoved) => ret.value = << >>

\* U1 was stored, read, removed and read again while U2's record stands
C8_Witness ==
    /\ lastRemoved = "U1" /\ GotSession("U1")
    /\ lastPut.user = "U2" /\ "U2" \in online_users

----------------------------------------------------------------------------
(* Properties of the task:update broadcast (Spec)                          *)

TaskUpdates(ems) == SelectSeq(ems, LAMBDA m : m.ev = "task:update")
Connected == {s \in SocketIds : sockets[s].state = "connected"}

\* one task:update of the event consumed in the last step, handed to every
\* connected session
OneTaskUpdate ==
    /\ Len(TaskUpdates(emitted)) = 1
    /\ LET m == TaskUpdates(emitted)[1] IN
         /\ m.to = AllRoom /\ m.skip = None
         /\ m.title = event[1].eventType
         /\ m.userId = event[1].userId
    /\ \A s \in Connected : Len(TaskUpdates(received[s])) = 1

----------------------------------------------------------------------------
(* The unreachable store (SpecDegraded)                                    *)

\* the presence broadcasts made about connection s
PresenceAbout(s, ev) ==
    SelectSeq(presenceLog, LAMBDA b : b.about = s /\ b.ev = ev)

\* connection s stands as the connection handler leaves it: in its two rooms,
\* announced once to the other connections
Joined(s) ==
    LET user == sockets[s].user[1] IN
    /\ rooms[s] = {UserRoom(user.id), RoleRoom(user.role)}
    /\ Len(PresenceAbout(s, "user:online")) = 1
    /\ PresenceAbout(s, "user:online")[1].to = PresenceAbout(s, "user:online")[1].others

----------------------------------------------------------------------------
(* Rejected handshakes (SpecService)                                       *)

Rejected(s) == sockets[s].state = "rejected"
BadTokens == {"", "forged"}

\* nothing of the service shows connection s: no room, no frame handed to it,
\* no presence broadcast about it, no session record or pending store call
\* with its socket id, no emission addressed to it
Outside(s) ==
    /\ rooms[s] = {}
    /\ received[s] = << >>
    /\ \A i \in 1..Len(presenceLog) :
          presenceLog[i].about # s /\ s \notin presenceLog[i].to
    /\ \A u \in Users :
          session[u] # << >> => JSONparse(session[u][1])[1].socketId # s
    /\ \A c \in calls : c.op = "storeUserSession" => c.arg[2] # s
    /\ \A i \in 1..Len(emitted) :
          emitted[i].to # SocketRoom(s) /\ emitted[i].skip # s

\* C13: a connection whose handshake has no token or a token that jwt.verify
\* rejects never reaches the joined state: the connection step leaves the
\* rooms, the store, the pending calls and the presence history as they were,
\* the connection stays rejected for ever, and in every later state it is in
\* no room, has no presence record, was announced to nobody and none of its
\* client events was handled.
C13_RejectedNeverJoins ==
    /\ [](\A s \in SocketIds : Rejected(s) => Outside(s))
    /\ [][\A s \in SocketIds :
            /\ (\E token \in BadTokens : Connection(s, token))
                  => /\ Rejected(s)'
                     /\ UNCHANGED <<rooms, calls, session, online_users, presenceLog>>
            /\ Rejected(s) => /\ Rejected(s)'
                              /\ ~(\E r \in Recipients, t \in Texts : MessageDirect(s, r, t))
         ]_vars

\* a rejected connection, while the other connection is joined, recorded in
\* the store and receives a direct message
C13_Witness ==
    /\ Rejected("s1")
    /\ sockets["s2"].state = "connected"
    /\ session["U1"] # << >> /\ "U1" \in online_users
    /\ Len(received["s2"]) = 2

----------------------------------------------------------------------------
(* The offline queues under dispatch (Spec)                                *)

\* no connected session is a member of user:{u}
NoMember(u) ==
    \A s \in SocketIds : ~(sockets[s].state = "connected" /\ UserRoom(u) \in rooms[s])

\* C14: processing a lifecycle event, a POST /notify request or a direct
\* message leaves every offline queue unchanged, also when the room that is
\* addressed has no member; the offline queues are empty in every reachable
\* state of the service.
C14_OfflineQueuesUntouched ==
    /\ [](\A u \in Users : notifications[u] = << >>)
    /\ [][notifications' = notifications]_vars

\* a lifecycle event was handled whose notification went to the user room of
\* an absent user
C14_Witness ==
    /\ outcome = "returned" /\ event # << >>
    /\ \E u \in Users :
         /\ NoMember(u)
         /\ \E i \in 1..Len(emitted) :
               emitted[i].ev = "notification" /\ emitted[i].to = UserRoom(u)
    /\ \E s \in SocketIds : sockets[s].state = "connected"

----------------------------------------------------------------------------
(* The broker connection (SpecConsumer)                                    *)

\* C15: after a broker connection error or close while consuming, the
\* consumer eventually returns to the consuming state (and so processes the
\* events published afterwards).
C15_ReturnsToConsuming == (conn = "closed") ~> (conn = "consuming")

----------------------------------------------------------------------------
(* Direct messages (Spec)                                                  *)

EmissionsOf(ems, ev) == SelectSeq(ems, LAMBDA m : m.ev = ev)

\* what a message:direct from connection s must have emitted
DirectDone(s, recipientId, message) ==
    LET user == sockets[s].user[1]
        rec  == EmissionsOf(emitted', "message:received")
        sent == EmissionsOf(emitted', "message:sent")
    IN  IF typeof(recipientId) = "string" /\ typeof(message) = "string"
        THEN /\ Len(rec) = 1
             /\ rec[1].to = UserRoom(recipientId[2])
             /\ rec[1].userId = user.id /\ rec[1].title = user.email
             /\ rec[1].message = message[2]
             /\ Len(sent) = 1
             /\ sent[1].to = SocketRoom(s)
             /\ sent[1].userId = recipientId[2] /\ sent[1].message = message[2]
             /\ Len(EmissionsOf(received'[s], "message:sent")) = 1
             /\ \A o \in SocketIds :
                   Len(EmissionsOf(received'[o], "message:received")) =
                     IF sockets[o].state = "connected"
                        /\ UserRoom(recipientId[2]) \in rooms[o] THEN 1 ELSE 0
        ELSE /\ rec = << >> /\ sent = << >>
             /\ received' = NothingReceived

\* C16: a 'message:direct' whose recipientId and message are both strings
\* emits exactly one 'message:received', carrying the sender's id and email,
\* to user:{recipientId}, and exactly one 'message:sent' to the sender, whether
\* or not the recipient is connected; if either is not a string, neither is
\* emitted.
C16_DirectMessage ==
    [][\A s \in SocketIds, r \in Recipients, t \in Texts :
          MessageDirect(s, r, t) => DirectDone(s, r, t)]_vars

\* a direct message to a user who has no connection: the message went to the
\* empty room and the sender got its confirmation
C16_Witness ==
    /\ Len(emitted) = 2
    /\ emitted[1].ev = "message:received" /\ emitted[1].to = UserRoom("U2")
    /\ NoMember("U2")
    /\ \E s \in SocketIds : Len(EmissionsOf(received[s], "message:sent")) = 1

----------------------------------------------------------------------------
(* One record per user (SpecPresence)                                      *)

\* C17: the presence store holds at most one record per user and the latest
\* wins: when storeUserSession(u, s1, ..) has finished and then
\* storeUserSession(u, s2, ..) has finished, the key of u holds the record of
\* the second call, getUserSession(u) returns a record with socketId s2, and u
\* is in the online set once.
C17_LatestSessionWins ==
    \A u \in Users :
      (lastPut.user = u /\ lastPut.prev # << >>) =>
        /\ session[u] = << Stringify(SessionData(lastPut.data[1], lastPut.data[2])) >>
        /\ GotSession(u) => ret.value # << >> /\ ret.value[1].socketId = lastPut.data[1]
        /\ Cardinality({x \in online_users : x = u}) = 1

\* U1 was stored with s1, then with s2, and then read
C17_Witness ==
    /\ lastPut.user = "U1" /\ lastPut.prev = << "s1" >> /\ lastPut.data[1] = "s2"
    /\ GotSession("U1")

----------------------------------------------------------------------------
(* Implicit rooms (SpecRooms)                                              *)

\* connection s is a member of the two rooms it was joined to on connection
InOwnRooms(s) ==
    LET user == sockets[s].user[1] IN
    UserRoom(user.id) \in rooms[s] /\ RoleRoom(user.role) \in rooms[s]

\* C18: every connected session is a member of user:{its user id} and of
\* role:{its role}, after any sequence of join:room, leave:room, join:task and
\* leave:task events.
C18_ImplicitRoomsKept ==
    \A s \in SocketIds : sockets[s].state = "connected" => InOwnRooms(s)

----------------------------------------------------------------------------
(* Presence broadcasts (SpecRooms)                                         *)

\* the places in the presence history of the broadcasts ev about connection s
PlacesOf(s, ev) ==
    {i \in 1..Len(presenceLog) : presenceLog[i].about = s /\ presenceLog[i].ev = ev}

\* C19: each authenticated session causes exactly one 'user:online', handed
\* to all the other connected sessions and not to itself; each disconnect
\* causes exactly one 'user:offline', handed to all the others; an offline for
\* a session never precedes its online, and a rejected or unconnected session
\* causes neither.
C19_PresenceBroadcasts ==
    /\ \A s \in SocketIds :
         /\ Cardinality(PlacesOf(s, "user:online")) =
              IF sockets[s].state \in {"connected", "closed"} THEN 1 ELSE 0
         /\ Cardinality(PlacesOf(s, "user:offline")) =
              IF sockets[s].state = "closed" THEN 1 ELSE 0
         /\ \A i \in PlacesOf(s, "user:offline") :
              \A j \in PlacesOf(s, "user:online") : j < i
    /\ \A i \in 1..Len(presenceLog) :
         /\ presenceLog[i].about \in SocketIds
         /\ presenceLog[i].to = presenceLog[i].others
         /\ presenceLog[i].about \notin presenceLog[i].to

\* s1 came online while s2 was connected, s2 was told, and s1 went offline
\* after s2 had left its own rooms
C19_Witness ==
    /\ sockets["s1"].state = "closed" /\ sockets["s2"].state = "connected"
    /\ ~InOwnRooms("s2")
    /\ \A i \in PlacesOf("s1", "user:online") \cup PlacesOf("s1", "user:offline") :
         presenceLog[i].to = {"s2"}

----------------------------------------------------------------------------
(* Recipients of updated and deleted (SpecResolver)                        *)

\* C20: for every updated event and every deleted event the user channels
\* addressed are exactly (watchers \cup {assignee}) minus {actor}; the creator
\* is addressed only as a watcher or as the assignee; no role channel is
\* addressed.
C20_UpdatedDeletedRecipients ==
    (Handled("updated") \/ Handled("deleted")) =>
      LET t == event[1].task[1]
          actor == event[1].userId
          involved == (Range(t.watchers) \cup {t.assignedTo}) \cap Users
      IN  /\ AddressedUserRooms = {UserRoom(u) : u \in involved \ {actor}}
          /\ (t.createdBy \in Users /\ t.createdBy \notin involved)
                => NotificationsTo(UserRoom(t.createdBy)) = << >>
          /\ AddressedRoleRooms = {}

\* a deleted event by U1 on a task created by U3, watched by U1 and assigned
\* to U2: U2 alone is addressed
C20_Witness ==
    /\ Handled("deleted")
    /\ LET t == event[1].task[1] IN
         /\ t.watchers = <<"U1">> /\ t.createdBy = "U3" /\ t.assignedTo = "U2"
    /\ event[1].userId = "U1"
    /\ AddressedUserRooms = {UserRoom("U2")}

----------------------------------------------------------------------------
(* Appends and reads in progress together (SpecOfflineConcurrent)          *)

\* C21: at all times, also while appends to the queue of a user and reads of
\* it are in progress together, the stored queue holds at most 50 entries and
\* no getOfflineNotifications returns more than 50 entries.
C21_NeverMoreThanFifty ==
    /\ \A u \in Users : Len(notifications[u]) <= TrimStop + 1
    /\ ret.op = "getOfflineNotifications" => Len(ret.value) <= TrimStop + 1

\* the part of C21 about what a read returns
C21_ReadsAtMostFifty ==
    ret.op = "getOfflineNotifications" => Len(ret.value) <= TrimStop + 1

----------------------------------------------------------------------------
(* A store command that fails in storeOfflineNotification (SpecOffline)    *)

\* the step that ends the call c in the catch block (redis.js:148-150): the
\* call is over before its last command, or its last command left the mark of
\* a failure
StoreFailedAt(c) ==
    /\ c.op = "storeOfflineNotification"
    /\ calls' = calls \ {c}
    /\ \/ c.pc \in {"lPush", "lTrim"}
       \/ clean[c.user] /\ ~clean'[c.user]

\* C22: when a command of storeOfflineNotification fails, at the push, the
\* trim or the expiry, the call returns without throwing and the queue of the
\* user is as it was before the call, with at most 50 entries.  With one call
\* after the other the queue is as before exactly when the entry of the call
\* is not in it: the entry is pushed to the head, which the trim never drops.
C22_FailedStoreIsNoOp ==
    [][\A c \in calls :
         StoreFailedAt(c) =>
           /\ ret' = Void
           /\ c.arg[1].id \notin {JSONparse(notifications'[c.user][i])[1].id :
                                    i \in 1..Len(notifications'[c.user])}
           /\ Len(notifications'[c.user]) <= TrimStop + 1]_vars

----------------------------------------------------------------------------
(* The expiry of the session record (SpecExpiry)                           *)

\* a step in which connection s is accepted
Accepted(s) == sockets[s].state = "new" /\ sockets'[s].state = "connected"

\* a storeUserSession starts only in the step that accepts a connection, and
\* the session key is written only by the setEx of such a call
WrittenAtConnectOnly ==
    /\ \A c \in calls' \ calls :
         c.op = "storeUserSession" /\ c.pc = "setEx" => Accepted(c.arg[2])
    /\ \A u \in Users :
         session'[u] # session[u] /\ session'[u] # << >> =>
           \E c \in calls :
             /\ c.op = "storeUserSession" /\ c.pc = "setEx" /\ c.user = u
             /\ session'[u] = << Stringify(c.arg[1]) >>

\* the key of u goes while no call moves: its time ran out
Expired(u) == session[u] # << >> /\ session'[u] = << >> /\ calls' = calls

\* a read that ends while the key of the user is gone
AbsentIsSkipped ==
    \A c \in calls \ calls' :
      /\ c.op = "getUserSession" /\ session[c.user] = << >> => ret'.value = << >>
      /\ c.op = "getOnlineUsers" /\ c.pc = "getUserSession" /\ ret'.op = "getOnlineUsers"
           /\ session[Head(c.arg[1])] = << >>
           => \A i \in 1..Len(ret'.value) : ret'.value[i].userId # Head(c.arg[1])

\* C23: the session record and its one-hour life are written only by the
\* storeUserSession of a connection, and by no other client event; when the
\* record runs out the user id stays in the online set, while getUserSession
\* answers absent and getOnlineUsers leaves the user out, connected or not.
C23_TtlNeverExtended ==
    [][/\ WrittenAtConnectOnly
       /\ \A u \in Users : Expired(u) => online_users' = online_users
       /\ AbsentIsSkipped]_vars

\* a session of U1 is connected and nothing was ever removed; its record ran
\* out, U1 is still in the online set, and getOnlineUsers, which got U1 from
\* sMembers, is about to look for the record
C23_Witness ==
    /\ \E s \in SocketIds :
         sockets[s].state = "connected" /\ sockets[s].user[1].id = "U1"
    /\ \A s \in SocketIds : sockets[s].state # "closed"
    /\ "U1" \in online_users
    /\ session["U1"] = << >>
    /\ calls = {Call("getOnlineUsers", None, "getUserSession", << <<"U1">>, << >> >>)}

----------------------------------------------------------------------------
(* The events the task service publishes (SpecTasks)                      *)

\* the messages a step adds to the exchange
NewlyPublished ==
    SubSeq(taskService'.published, Len(taskService.published) + 1,
           Len(taskService'.published))

\* the event the route of the response owes
EventOwed ==
    CASE taskService'.res.route = "create"  -> "created"
      [] taskService'.res.route = "delete"  -> "deleted"
      [] taskService'.res.route = "comment" -> "comment_added"
      [] taskService'.res.route = "update"  ->
           IF \E id \in TaskDocIds :
                /\ taskService.tasks[id] # << >>
                /\ taskService'.tasks[id] # << >>
                /\ taskService.tasks[id][1].status # taskService'.tasks[id][1].status
           THEN "status_changed" ELSE "updated"

Answered == taskService'.served # taskService.served

\* a request answered with 400, 403 or 404 publishes nothing, and no request
\* publishes more than one event or an event of another kind
AtMostTheEventOwed ==
    Answered =>
      /\ taskService'.res.status \in {400, 403, 404} => NewlyPublished = << >>
      /\ Len(NewlyPublished) <= 1
      /\ NewlyPublished # << >> =>
           /\ taskService'.res.status \in {200, 201}
           /\ NewlyPublished[1].eventType = EventOwed
           /\ NewlyPublished[1].userId \in TaskUsers

\* C24: every successful mutation publishes exactly one lifecycle event, of the
\* kind its route owes (an update: status_changed when the status differs from
\* the stored one, otherwise updated), never both and never none; a request
\* rejected with 400, 403 or 404 publishes nothing.
C24_ExactlyOneEvent ==
    [][/\ AtMostTheEventOwed
       /\ Answered /\ taskService'.res.status \in {200, 201} =>
            Len(NewlyPublished) = 1]_vars

\* the part of C24 that holds whatever the channel: never two, never the wrong
\* kind, none for a rejected request
C24_AtMostOneEvent == [][AtMostTheEventOwed]_vars

\* the part of C24 that holds while the channel is open
C24_OneEventWhileOpen ==
    [][Answered /\ taskService'.res.status \in {200, 201} /\ taskService.channel = "open"
         => Len(NewlyPublished) = 1]_vars

----------------------------------------------------------------------------
(* One session: its store and its removal (SpecSingleSession)              *)

\* the session of s is over and no presence call of its user is in progress
BothFinished(s, u) ==
    /\ sockets[s].state = "closed"
    /\ SessionOf(s) = TokenOf(u)
    /\ \A c \in calls : c.user # u

Absent(u) == session[u] = << >> /\ u \notin online_users

----------------------------------------------------------------------------
(* Sessions of the same user (SpecSharedUser)                              *)

\* connection s is connected and the storeUserSession it started has finished
StoreFinished(s) ==
    /\ sockets[s].state = "connected"
    /\ \A c \in calls : ~(c.op = "storeUserSession" /\ c.arg[2] = s)

\* C26: expiry and store failures aside, whenever a user has a connected
\* session whose storeUserSession has finished, the store holds a session
\* record for the user, and the socketId of the record is that of a connected
\* session of the user; also after another session of the user disconnected.
C26_RecordOfConnectedSession ==
    \A s \in SocketIds :
      StoreFinished(s) =>
        LET u == sockets[s].user[1].id IN
          /\ session[u] # << >>
          /\ \E t \in SocketIds :
               /\ sockets[t].state = "connected"
               /\ sockets[t].user[1].id = u
               /\ JSONparse(session[u][1])[1].socketId = t

----------------------------------------------------------------------------
(* Events on which handleTaskEvent throws (Spec)                           *)

\* C27: when the processing of an event raised an exception, and its message
\* was nacked and dropped, no 'notification' and no 'task:update' of that event
\* was handed to any client.
C27_FailedEventNotDelivered ==
    outcome = "threw" /\ LastDelivery.nacks = 1 =>
      \A s \in SocketIds : received[s] = << >>

\* the part of C27 that holds: a failed event has no task:update
C27_FailedEventNotBroadcast ==
    outcome = "threw" => TaskUpdates(emitted) = << >>

----------------------------------------------------------------------------
(* Who receives what is addressed to a user or a role (SpecRooms)          *)

\* C28: after any sequence of join:room and leave:room events, a 'notification'
\* or 'message:received' addressed to user:{X} is handed only to sessions
\* authenticated as X, and a 'notification' addressed to role:{R} only to
\* sessions whose token carries the role R.
C28_AddressedToOwnerOnly ==
    \A s \in SocketIds :
      \A i \in 1..Len(received[s]) :
        LET m == received[s][i] IN
          m.ev \in {"notification", "message:received"} =>
            /\ \A x \in Users : m.to = UserRoom(x) => sockets[s].user[1].id = x
            /\ \A r \in Roles : m.to = RoleRoom(r) => sockets[s].user[1].role = r

----------------------------------------------------------------------------
(* Users with several roles on the task (SpecResolver)                     *)

\* the generic notifications of the event that address the channel of u
GenericTo(u) ==
    SelectSeq(emitted, LAMBDA m :
        /\ m.ev = "notification" /\ m.to = UserRoom(u)
        /\ m.title = TitleOf(event[1].eventType)
        /\ m.message = MessageOf(event[1].eventType))

\* C29: for every event of a known type, each user other than the actor is
\* addressed with the generic notification of the event at most once, also
\* when the user is watcher and assignee, watcher and creator, creator and
\* assignee, or listed twice among the watchers.
C29_GenericAtMostOnce ==
    \A ty \in EventTypes :
      Handled(ty) =>
        \A u \in Users \ {event[1].userId} : Len(GenericTo(u)) <= 1

\* the part of C29 that holds: the 'created' case addresses the assignee alone,
\* with the assignment message, and no user with the generic one
C29_CreatedAddressesOnce ==
    Handled("created") =>
      \A u \in Users : Len(NotificationsTo(UserRoom(u))) <= 1 /\ GenericTo(u) = << >>

----------------------------------------------------------------------------
(* The answer to clear:offline_notifications (SpecClear)                   *)

ToldCleared(s) ==
    \E i \in 1..Len(received[s]) : received[s][i].ev = "notifications:cleared"

\* C30: 'notifications:cleared' is sent to a session in answer to
\* 'clear:offline_notifications' only if the queue of its user was deleted:
\* none is sent when there is no client or when the del failed.
C30_ClearedOnlyIfDeleted ==
    \A s \in SocketIds :
      ToldCleared(s) =>
        /\ cleared = [user |-> sockets[s].user[1].id, ok |-> TRUE]
        /\ notifications[sockets[s].user[1].id] = << >>

\* what does hold: the answer goes to the session that asked, once the call is
\* over
C30_ClearedAfterTheCall ==
    \A s \in SocketIds :
      ToldCleared(s) =>
        /\ cleared.user = sockets[s].user[1].id
        /\ \A c \in calls : ~(c.op = "clear:offline_notifications" /\ c.arg = <<s>>)
        /\ cleared.ok => notifications[sockets[s].user[1].id] = << >>

====
